---- MODULE Spec2Model ----
(***************************************************************************)
(* Cross-window tab drag-and-drop of browser-laptop.                       *)
(*                                                                         *)
(* Spec      : the browser-process drag state store, the reducer of        *)
(*             app/browser/reducers/tabDraggingReducer.js, together with   *)
(*             the callbacks it defers (setImmediate, tabs.moveTo,         *)
(*             setTimeout) and the window state those callbacks touch.     *)
(* SpecStrip : one window's tab strip: the drag controller's destination   *)
(*             index (makeDraggableAndDetachable) and the page-change      *)
(*             debounce of tabs.js (onDragChangeIndex and its timer).      *)
(***************************************************************************)
EXTENDS Integers, Sequences, FiniteSets, TLC

(***************************************************************************)
(* Bounds of the model.                                                    *)
(***************************************************************************)
\* windows that can exist at once (the windows open at start and the buffer windows created)
MaxWindows == 2
\* deferred callbacks and asynchronous completions that may be pending at once
MaxQueue == 1

(***************************************************************************)
(* Immutable.Map operations used by the reducer.                           *)
(***************************************************************************)
Has(m, k) == k \in DOMAIN m

Merge(m, u) ==
  [k \in (DOMAIN m) \cup (DOMAIN u) |-> IF k \in DOMAIN u THEN u[k] ELSE m[k]]

Remove(m, k) == [x \in (DOMAIN m) \ {k} |-> m[x]]

EmptyMap == [x \in {} |-> 0]

stateKey == "tabDragData"

\* state.mergeIn([stateKey], u)
MergeIn(st, u) ==
  Merge(st, [x \in {stateKey} |-> IF Has(st, stateKey) THEN Merge(st[stateKey], u) ELSE u])

\* state.deleteIn([stateKey, k])
DeleteIn(st, k) ==
  IF Has(st, stateKey)
    THEN Merge(st, [x \in {stateKey} |-> Remove(st[stateKey], k)])
    ELSE st

\* state.setIn([stateKey, k], v)
SetIn(st, k, v) == MergeIn(st, [x \in {k} |-> v])

(***************************************************************************)
(* The world the store acts on.                                            *)
(***************************************************************************)
Windows == 1..MaxWindows
NoWindow == 0
\* the windows that hold tabs other than the dragged one
HostWindows == {1}
\* the dragged tab
TabId == 7
\* screen points the cursor visits: two columns of the one row the tab strips are on
Points == {<<2, 5>>, <<3, 5>>}
\* offset of the pointer within the dragged tab at drag start
RelOffsets == {<<1, 1>>}
\* client position of the dragged tab in its strip, as a renderer reports it
TabPoints == {<<0, 0>>}
\* frame indexes an event may name
FrameIndexes == {1}
\* offset of a window's content area from its position (the OS window frame)
OSFrame == <<1, 2>>
\* where the windows are when the model starts
StartPosition == <<0, 2>>

VARIABLES
  state,        \* the app state; key tabDragData is the drag session
  tabWindowId,  \* tabState.getWindowId(state, sourceTabId): the window owning the dragged tab
  tabIndex,     \* frame index of the dragged tab in its window
  cursor,       \* screen.getCursorScreenPoint()
  numWindows,   \* windows 1..numWindows exist
  winPos,       \* BrowserWindow.getPosition() of each window
  ignoreMouse,  \* windows with setIgnoreMouseEvents(true)
  alwaysOnTop,  \* windows with setAlwaysOnTop(true)
  visible,      \* windows shown
  dragBuffer,   \* windows.getDragBufferWindow(): the registered buffer window, or NoWindow
  isWindows,    \* platformUtil.isWindows()
  immediates,   \* callbacks queued with setImmediate, in order
  asyncs,       \* tab moves and timeouts in flight, completing in any order
  lastEvent,    \* the store event processed last and the branch it took; none once a
                \* deferred callback or a completion has run since
  dragIntendedWindowId, \* props.dragIntendedWindowId: the session's currentWindowId in
                \* the copy of the app state the windows render from, which the store
                \* sends them after it has changed; NoWindow when that copy has no session
  hist,         \* history: "started" since a DragStarted with no DragCancelled or
                \* DragComplete after it, "restored" once a SetState followed that, else "none"
  \* one window's tab strip, while a tab that is not its only tab is dragged in it
  displayIndex,                  \* props.displayIndex of the dragged tab
  tabPageIndex,                  \* props.tabPageIndex: the page the strip shows
  totalTabCount,                 \* props.totalTabCount
  dragCanDetach,                 \* props.dragCanDetach: the dragged tab is not pinned
  measured,                      \* draggingTabWidth and parentClientRect are set
  hasParentClientRect,           \* parentClientRect is set: a new page forgets the width only
  suspendOrderChangeUntilUpdate, \* the controller waits for the display index to change
  draggingDetachThreshold,       \* the vertical detach margin
  draggingDetachTimeout,         \* "none", "pending", or "fired": the handle is kept after firing
  hasRequestedDetach,            \* the controller has asked for a detach
  draggingMoveTabPageTimeout,    \* <<>>, or <<d>>: the pending page-change timer and the
                                 \* destination index its callback holds
  pausingForPageIndex,           \* <<>>, or <<p>>: the page the window is pausing to change to
  indexChanges,                  \* index changes issued to the store and not yet answered
  detachRequests,                \* detach-requested intents emitted
  stripEvent,                    \* the strip step taken last and the branches it took
  isDragging,                    \* props.isDragging as the controller last saw it: its
                                 \* handlers are attached
  mounted,                       \* the tab's element is in the strip (this.elementRef)
  measurePending,                \* an animation frame for evaluateDraggingTabWidth is queued
  throttleWaiting,               \* the throttle of the sort detection is in its wait
  throttledEvent,                \* <<>>, or <<x, y>>: the pointer event the throttle holds
                                 \* for its trailing call
  singleTabMoves,                \* single-tab-moved intents emitted
  detachTimers,                  \* detach-confirmation timers set and neither fired nor cleared
  pageTimers,                    \* page-change timers set and neither fired nor cleared
  pointerOutside,                \* history: the pointer move the listener received last
                                 \* was beyond a detach margin of the strip
  dragProcessMoves,              \* props.dragProcessMoves: the window's copy of the session
                                 \* has no attach or detach pending and names this window,
                                 \* which owns the tab
  awaitingIndexChange,           \* history: in this drag the controller has asked for an
                                 \* index change and no render since has shown the tab at
                                 \* another display index
  reorderedSinceAttach,          \* history: since the handlers were attached a render has
                                 \* shown the dragged tab at another display index
  \* one call of detectDragIndexPosition
  detectArgs,                    \* its arguments, and the props and the strip width it reads
  detectResult,                  \* <<>>, or <<i>>: the index it returned
  \* the geometry of one drag of the only tab of a window, in parts of a pixel
  geometryArgs,                  \* where the window, its content and the tab are, and where
                                 \* the pointer is pressed
  geometrySession,               \* <<>>, or the session DragStarted has made
  geometryMove,                  \* <<>>, or the last SingleTabMoved: the cursor, the tab's
                                 \* client position, and the window position computed
  \* the animation frame that moves the dragged tab with the pointer
  dragTabMouseMoveFrame,         \* this.dragTabMouseMoveFrame holds the handle of a frame
  dragTabFrames,                 \* the frames requested for dragTab that have not run, in
                                 \* order: TRUE when the measurement was requested before
  currentMouseX                  \* this.currentMouseX holds the x of the last dragTab

storeVars == <<state, tabWindowId, tabIndex, cursor, numWindows, winPos, ignoreMouse,
               alwaysOnTop, visible, dragBuffer, isWindows, immediates, asyncs,
               lastEvent, hist>>

stripVars == <<displayIndex, tabPageIndex, totalTabCount, dragCanDetach, measured,
               hasParentClientRect,
               suspendOrderChangeUntilUpdate, draggingDetachThreshold,
               draggingDetachTimeout, hasRequestedDetach, draggingMoveTabPageTimeout,
               pausingForPageIndex, indexChanges, detachRequests, stripEvent,
               isDragging, mounted, measurePending, throttleWaiting, throttledEvent,
               singleTabMoves, detachTimers, pageTimers, pointerOutside,
               dragProcessMoves, awaitingIndexChange, reorderedSinceAttach>>

rendererVars == <<dragIntendedWindowId>>

detectVars == <<detectArgs, detectResult>>

geometryVars == <<geometryArgs, geometrySession, geometryMove>>

frameVars == <<dragTabMouseMoveFrame, dragTabFrames, currentMouseX>>

\* the variables of the calls looked at on their own
pureVars == <<detectVars, geometryVars>>

vars == <<storeVars, rendererVars, stripVars, detectVars, geometryVars, frameVars>>

HasSession == Has(state, stateKey)
Session == state[stateKey]

\* browserWindowUtil.getWindowClientPointAtCursor: the cursor in the window's client space
getWindowClientPointAtCursor(w, cur, pos) ==
  <<cur[1] - pos[w][1] - OSFrame[1], cur[2] - pos[w][2] - OSFrame[2]>>

\* browserWindowUtil.getWindowPositionForClientPointAtCursor: the window position
\* that puts client point p under the cursor
getWindowPositionForClientPointAtCursor(p, cur) ==
  <<cur[1] - p[1] - OSFrame[1], cur[2] - p[2] - OSFrame[2]>>

Event(type, branch) == [type |-> type, branch |-> branch]

\* no store event since the last deferred callback or completion ran
NoEvent == Event("none", "none")

CanQueue == Len(immediates) + Cardinality(asyncs) < MaxQueue

\* no call of detectDragIndexPosition is looked at
DetectQuiet ==
  /\ detectArgs = <<>>
  /\ detectResult = <<>>

\* no frame for dragTab has been requested
FrameQuiet ==
  /\ dragTabMouseMoveFrame = FALSE
  /\ dragTabFrames = <<>>
  /\ currentMouseX = FALSE

\* no drag geometry is looked at
GeometryQuiet ==
  /\ geometryArgs = <<>>
  /\ geometrySession = <<>>
  /\ geometryMove = <<>>

\* a strip in which no tab is dragged
StripQuiet ==
  /\ displayIndex = 0
  /\ tabPageIndex = 0
  /\ totalTabCount = 1
  /\ dragCanDetach = FALSE
  /\ measured = FALSE
  /\ hasParentClientRect = FALSE
  /\ suspendOrderChangeUntilUpdate = FALSE
  /\ draggingDetachThreshold = 0
  /\ draggingDetachTimeout = "none"
  /\ hasRequestedDetach = FALSE
  /\ draggingMoveTabPageTimeout = <<>>
  /\ pausingForPageIndex = <<>>
  /\ indexChanges = <<>>
  /\ detachRequests = 0
  /\ stripEvent = NoEvent
  /\ isDragging = FALSE
  /\ mounted = TRUE
  /\ measurePending = FALSE
  /\ throttleWaiting = FALSE
  /\ throttledEvent = <<>>
  /\ singleTabMoves = 0
  /\ detachTimers = 0
  /\ pageTimers = 0
  /\ pointerOutside = FALSE
  /\ dragProcessMoves = FALSE
  /\ awaitingIndexChange = FALSE
  /\ reorderedSinceAttach = FALSE

Init ==
  /\ StripQuiet
  /\ DetectQuiet
  /\ GeometryQuiet
  /\ FrameQuiet
  /\ state = EmptyMap
  /\ tabWindowId \in {1, 2}
  /\ tabIndex = 0
  /\ cursor \in Points
  /\ numWindows = tabWindowId
  /\ winPos = [w \in Windows |-> StartPosition]
  /\ ignoreMouse = {}
  /\ alwaysOnTop = {}
  /\ visible = 1..tabWindowId
  /\ dragBuffer = NoWindow
  /\ isWindows \in BOOLEAN
  /\ immediates = <<>>
  /\ asyncs = {}
  /\ lastEvent = NoEvent
  /\ dragIntendedWindowId = NoWindow
  /\ hist = "none"

(***************************************************************************)
(* APP_SET_STATE                                                           *)
(***************************************************************************)
\* tabDraggingState.app.delete(state)
DeleteSession(st) == Remove(st, stateKey)

\* SetState with the assignment of line 27 left out
SetStateKept ==
  /\ UNCHANGED <<rendererVars, stripVars, pureVars, frameVars>>
  /\ \E leftover \in {EmptyMap, state} :
       state' = leftover
  /\ lastEvent' = Event("SetState", "deleted")
  /\ hist' = IF hist = "none" THEN "none" ELSE "restored"
  /\ UNCHANGED <<tabWindowId, tabIndex, cursor, numWindows, winPos, ignoreMouse,
                 alwaysOnTop, visible, dragBuffer, isWindows, immediates, asyncs>>

\* the restored app state may carry the session of a drag that a crash interrupted
SetState ==
  /\ UNCHANGED <<rendererVars, stripVars, pureVars, frameVars>>
  /\ \E leftover \in {EmptyMap, state} :
       state' = DeleteSession(leftover)
  /\ lastEvent' = Event("SetState", "deleted")
  /\ hist' = IF hist = "none" THEN "none" ELSE "restored"
  /\ UNCHANGED <<tabWindowId, tabIndex, cursor, numWindows, winPos, ignoreMouse,
                 alwaysOnTop, visible, dragBuffer, isWindows, immediates, asyncs>>

(***************************************************************************)
(* APP_TAB_DRAG_STARTED                                                    *)
(***************************************************************************)
\* appActions.tabDragStarted as Tab.onDragStart calls it
DragSourceData(src, single, cur, pos, rel) ==
  LET client == getWindowClientPointAtCursor(src, cur, pos) IN
  [ sourceTabId |-> TabId,
    originalWindowId |-> src,
    currentWindowId |-> src,
    originClientX |-> client[1],
    originClientY |-> client[2],
    originScreenX |-> cur[1],
    originScreenY |-> cur[2],
    relativeXDragStart |-> rel[1],
    relativeYDragStart |-> rel[2],
    originatedFromSingleTabWindow |-> single ]

\* StartSession with frame offsets that leave out the window position of line 41
StartSessionFrameOfScreen(st, data, winXY) ==
  Merge(st, [x \in {stateKey} |->
    Merge(data, [ frameTopHeight |-> data.originScreenY - data.originClientY,
                  frameLeftWidth |-> data.originScreenX - data.originClientX ])])

\* StartSession merging into the session in place of setting it
StartSessionMerged(st, data, winXY) ==
  MergeIn(st,
    Merge(data, [ frameTopHeight |-> data.originScreenY - data.originClientY - winXY[2],
                  frameLeftWidth |-> data.originScreenX - data.originClientX - winXY[1] ]))

\* state.set(stateKey, dragSourceData.merge({frameTopHeight, frameLeftWidth}))
StartSession(st, data, winXY) ==
  Merge(st, [x \in {stateKey} |->
    Merge(data, [ frameTopHeight |-> data.originScreenY - data.originClientY - winXY[2],
                  frameLeftWidth |-> data.originScreenX - data.originClientX - winXY[1] ])])

\* the branch of lines 49-81, and what the new session replaces
DragStartedBranch(st, single) ==
  IF ~Has(st, stateKey)
    THEN IF single THEN "single" ELSE "buffer"
  ELSE IF \/ Has(st[stateKey], "attachRequestedWindowId")
          \/ Has(st[stateKey], "detachToRequestedWindowId")
    THEN IF single THEN "singleOverPending" ELSE "bufferOverPending"
  ELSE IF single THEN "singleOverSession" ELSE "bufferOverSession"

\* the pointer is pressed on the dragged tab, rel from the tab's corner
DragStarted ==
  \E rel \in RelOffsets, tab \in TabPoints :
    LET src == tabWindowId
        single == src \notin HostWindows
        data == DragSourceData(src, single, cursor, winPos, rel)
        started == StartSession(state, data, winPos[src])
    IN
    /\ UNCHANGED <<rendererVars, stripVars, pureVars, frameVars>>
    /\ CanQueue
    /\ getWindowClientPointAtCursor(src, cursor, winPos) = <<tab[1] + rel[1], tab[2] + rel[2]>>
    /\ IF ~single
         THEN \* windows.createBufferWindow()
              /\ numWindows < MaxWindows
              /\ numWindows' = numWindows + 1
              /\ dragBuffer' = numWindows + 1
              /\ state' = SetIn(started, "bufferWindowId", numWindows + 1)
              /\ immediates' = Append(immediates,
                   [type |-> "positionBuffer", buffer |-> numWindows + 1,
                    pos |-> winPos[src]])
              /\ lastEvent' = Event("DragStarted", DragStartedBranch(state, single))
         ELSE /\ state' = SetIn(started, "dragDetachedWindowId", src)
              /\ immediates' = Append(immediates, [type |-> "ignoreMouse", win |-> src])
              /\ lastEvent' = Event("DragStarted", DragStartedBranch(state, single))
              /\ UNCHANGED <<numWindows, dragBuffer>>
    /\ hist' = "started"
    /\ UNCHANGED <<tabWindowId, tabIndex, cursor, winPos, ignoreMouse, alwaysOnTop,
                   visible, isWindows, asyncs>>

(***************************************************************************)
(* APP_TAB_DRAG_CANCELLED and APP_TAB_DRAG_COMPLETE                        *)
(***************************************************************************)
\* tabDraggingState.app.getDragDetachedWindowId(state)
getDragDetachedWindowId(st) ==
  IF Has(st, stateKey) /\ Has(st[stateKey], "dragDetachedWindowId")
    THEN st[stateKey].dragDetachedWindowId
    ELSE NoWindow

\* EndSession with the delete left out
EndSessionKept(st) == st

\* state.delete(stateKey)
EndSession(st) == Remove(st, stateKey)

\* BrowserWindow.fromId gives null for the id of a window that was closed, and lines
\* 92 and 110 call a method on what it gives: the reducer throws before state.delete
EndOfDragThrew(type) ==
  /\ lastEvent' = Event(type, "threw")
  /\ UNCHANGED <<rendererVars, stripVars, pureVars, frameVars>>
  /\ UNCHANGED <<state, tabWindowId, tabIndex, cursor, numWindows, winPos, ignoreMouse,
                 alwaysOnTop, visible, dragBuffer, isWindows, immediates, asyncs, hist>>

DragCancelled ==
  LET detachedWindowId == getDragDetachedWindowId(state)
      restored == IF detachedWindowId # NoWindow THEN {detachedWindowId} ELSE {}
      hide == dragBuffer # NoWindow /\ dragBuffer \in visible
  IN
  \E detachedWindow \in IF detachedWindowId # NoWindow THEN {"window", "null"}
                                                      ELSE {"unused"} :
    IF detachedWindow = "null"
      THEN EndOfDragThrew("DragCancelled")
      ELSE /\ UNCHANGED <<rendererVars, stripVars, pureVars, frameVars>>
           /\ ignoreMouse' = ignoreMouse \ restored
           /\ alwaysOnTop' = alwaysOnTop \ restored
           /\ state' = EndSession(state)
           /\ visible' = IF hide THEN visible \ {dragBuffer} ELSE visible
           /\ lastEvent' = Event("DragCancelled", IF hide THEN "hidden" ELSE "noBuffer")
           /\ hist' = "none"
           /\ UNCHANGED <<tabWindowId, tabIndex, cursor, numWindows, winPos, dragBuffer,
                          isWindows, immediates, asyncs>>

DragComplete ==
  LET detachedWindowId == getDragDetachedWindowId(state)
      restored == IF detachedWindowId # NoWindow THEN {detachedWindowId} ELSE {}
      hide == dragBuffer # NoWindow /\ dragBuffer \in visible
  IN
  \E detachedWindow \in IF detachedWindowId # NoWindow THEN {"window", "null"}
                                                      ELSE {"unused"} :
    IF detachedWindow = "null"
      THEN EndOfDragThrew("DragComplete")
      ELSE /\ UNCHANGED <<rendererVars, stripVars, pureVars, frameVars>>
           /\ alwaysOnTop' = alwaysOnTop \ restored
           /\ state' = EndSession(state)
           /\ visible' = IF hide THEN visible \ {dragBuffer} ELSE visible
           /\ ignoreMouse' =
                (ignoreMouse \ restored) \ (IF hide THEN {dragBuffer} ELSE {})
           /\ lastEvent' = Event("DragComplete", IF hide THEN "hidden" ELSE "noBuffer")
           /\ hist' = "none"
           /\ UNCHANGED <<tabWindowId, tabIndex, cursor, numWindows, winPos, dragBuffer,
                          isWindows, immediates, asyncs>>

(***************************************************************************)
(* APP_TAB_DRAG_CHANGE_WINDOW_DISPLAY_INDEX                                *)
(***************************************************************************)
\* IndexChangeBranch without the comparison of the sender to currentWindowId
IndexChangeBranchAnySender(st, senderWindowId) ==
  IF ~Has(st, stateKey) THEN "noSession"
  ELSE IF ~Has(st[stateKey], "sourceTabId") THEN "noSourceTab"
  ELSE IF \/ Has(st[stateKey], "attachRequestedWindowId")
          \/ Has(st[stateKey], "detachToRequestedWindowId") THEN "pending"
  ELSE "accepted"

\* the guards of lines 128-144, in the order the reducer takes them
IndexChangeBranch(st, senderWindowId) ==
  IF ~Has(st, stateKey) THEN "noSession"
  ELSE IF ~Has(st[stateKey], "sourceTabId") THEN "noSourceTab"
  ELSE IF \/ Has(st[stateKey], "attachRequestedWindowId")
          \/ Has(st[stateKey], "detachToRequestedWindowId") THEN "pending"
  ELSE IF senderWindowId # st[stateKey].currentWindowId THEN "staleWindow"
  ELSE "accepted"

\* stateUpdate of lines 147-161
IndexChangeUpdate(st, destinationDisplayIndex, requiresMouseUpdate, point) ==
  MergeIn(st,
    IF requiresMouseUpdate
      THEN [ displayIndexRequested |-> destinationDisplayIndex,
             dragWindowClientX |-> point[1],
             dragWindowClientY |-> point[2] ]
      ELSE [ displayIndexRequested |-> destinationDisplayIndex ])

ChangeDisplayIndexEvent(senderWindowId, destinationIndex, requiresMouseUpdate) ==
    IF IndexChangeBranch(state, senderWindowId) = "accepted"
      THEN /\ CanQueue
           /\ state' = IndexChangeUpdate(state, destinationIndex, requiresMouseUpdate,
                         getWindowClientPointAtCursor(tabWindowId, cursor, winPos))
           /\ immediates' = Append(immediates,
                [type |-> "setTabIndex", index |-> destinationIndex])
           /\ lastEvent' = Event("ChangeDisplayIndex", "accepted")
           /\ UNCHANGED <<tabWindowId, tabIndex, cursor, numWindows, winPos, ignoreMouse,
                          alwaysOnTop, visible, dragBuffer, isWindows, asyncs, hist>>
      ELSE /\ lastEvent' = Event("ChangeDisplayIndex",
                                 IndexChangeBranch(state, senderWindowId))
           /\ UNCHANGED <<state, tabWindowId, tabIndex, cursor, numWindows, winPos,
                          ignoreMouse, alwaysOnTop, visible, dragBuffer, isWindows,
                          immediates, asyncs, hist>>

ChangeDisplayIndex ==
  \E senderWindowId \in 1..numWindows, destinationIndex \in FrameIndexes,
     requiresMouseUpdate \in BOOLEAN :
    /\ ChangeDisplayIndexEvent(senderWindowId, destinationIndex, requiresMouseUpdate)
    /\ UNCHANGED <<rendererVars, stripVars, pureVars, frameVars>>

(***************************************************************************)
(* APP_TAB_ATTACHED                                                        *)
(***************************************************************************)
\* ConfirmAttach without the cursor coordinates
ConfirmAttachStale(st, currentWindowId, point) ==
  MergeIn(
    DeleteIn(DeleteIn(DeleteIn(st, "attachRequestedWindowId"),
                      "displayIndexRequested"),
             "dragDetachedWindowId"),
    [ currentWindowId |-> currentWindowId ])

\* lines 190-202: the tab has arrived in the window the attach was requested for
ConfirmAttach(st, currentWindowId, point) ==
  MergeIn(
    DeleteIn(DeleteIn(DeleteIn(st, "attachRequestedWindowId"),
                      "displayIndexRequested"),
             "dragDetachedWindowId"),
    [ currentWindowId |-> currentWindowId,
      dragWindowClientX |-> point[1],
      dragWindowClientY |-> point[2] ])

\* ConfirmDetach that leaves detachedFromWindowId in the session
ConfirmDetachKeepsOrigin(st, currentWindowId) ==
  SetIn(
    SetIn(
      DeleteIn(DeleteIn(st, "detachToRequestedWindowId"), "displayIndexRequested"),
      "currentWindowId", currentWindowId),
    "dragDetachedWindowId", currentWindowId)

\* lines 218-222: the tab has arrived in the buffer window the detach was requested to
ConfirmDetach(st, currentWindowId) ==
  SetIn(
    SetIn(
      DeleteIn(DeleteIn(DeleteIn(st, "detachedFromWindowId"),
                        "detachToRequestedWindowId"),
               "displayIndexRequested"),
      "currentWindowId", currentWindowId),
    "dragDetachedWindowId", currentWindowId)

\* the branch APP_TAB_ATTACHED takes, lines 171-224
TabAttachedBranch(st, currentWindowId) ==
  IF ~Has(st, stateKey) THEN "noSession"
  ELSE IF Has(st[stateKey], "attachRequestedWindowId")
    THEN IF currentWindowId # st[stateKey].attachRequestedWindowId
           THEN "waitAttach" ELSE "attached"
  ELSE IF Has(st[stateKey], "detachToRequestedWindowId")
    THEN IF currentWindowId # st[stateKey].detachToRequestedWindowId
           THEN "waitDetach" ELSE "detached"
  ELSE "nothingPending"

TabAttached ==
  LET currentWindowId == tabWindowId
      branch == TabAttachedBranch(state, currentWindowId)
  IN
  /\ state' = CASE branch = "attached" ->
                     ConfirmAttach(state, currentWindowId,
                       getWindowClientPointAtCursor(currentWindowId, cursor, winPos))
                [] branch = "detached" -> ConfirmDetach(state, currentWindowId)
                [] OTHER -> state
  /\ lastEvent' = Event("TabAttached", branch)
  /\ UNCHANGED <<rendererVars, stripVars, pureVars, frameVars>>
  /\ UNCHANGED <<tabWindowId, tabIndex, cursor, numWindows, winPos, ignoreMouse,
                 alwaysOnTop, visible, dragBuffer, isWindows, immediates, asyncs, hist>>

(***************************************************************************)
(* APP_TAB_DRAG_SINGLE_TAB_MOVED                                           *)
(***************************************************************************)
\* SingleTabMoveBranch without the checks for a pending attach or detach
SingleTabMoveBranchWhilePending(st, actualWindowId, eventSourceWindowId) ==
  IF ~Has(st, stateKey) THEN "noSession"
  ELSE IF st[stateKey].currentWindowId # actualWindowId THEN "wrongWindow"
  ELSE IF st[stateKey].currentWindowId # eventSourceWindowId THEN "staleSource"
  ELSE "accepted"

\* the guards of lines 227-259, in the order the reducer takes them
SingleTabMoveBranch(st, actualWindowId, eventSourceWindowId) ==
  IF ~Has(st, stateKey) THEN "noSession"
  ELSE IF Has(st[stateKey], "attachRequestedWindowId") THEN "attachPending"
  ELSE IF Has(st[stateKey], "detachRequestedWindowId") THEN "detachPending"
  ELSE IF Has(st[stateKey], "detachToRequestedWindowId") THEN "detachPending"
  ELSE IF st[stateKey].currentWindowId # actualWindowId THEN "wrongWindow"
  ELSE IF st[stateKey].currentWindowId # eventSourceWindowId THEN "staleSource"
  ELSE "accepted"

SingleTabMovedEvent(windowId, tab) ==
    IF SingleTabMoveBranch(state, tabWindowId, windowId) = "accepted"
      THEN /\ CanQueue
           /\ immediates' = Append(immediates,
                [ type |-> "moveWindow", win |-> Session.currentWindowId,
                  tabX |-> tab[1], tabY |-> tab[2],
                  relativeTabX |-> Session.relativeXDragStart,
                  relativeTabY |-> Session.relativeYDragStart,
                  frameLeftWidth |-> Session.frameLeftWidth,
                  frameTopHeight |-> Session.frameTopHeight ])
           /\ lastEvent' = Event("SingleTabMoved", "accepted")
           /\ UNCHANGED <<state, tabWindowId, tabIndex, cursor, numWindows, winPos,
                          ignoreMouse, alwaysOnTop, visible, dragBuffer, isWindows,
                          asyncs, hist>>
      ELSE /\ lastEvent' = Event("SingleTabMoved",
                                 SingleTabMoveBranch(state, tabWindowId, windowId))
           /\ UNCHANGED <<state, tabWindowId, tabIndex, cursor, numWindows, winPos,
                          ignoreMouse, alwaysOnTop, visible, dragBuffer, isWindows,
                          immediates, asyncs, hist>>

SingleTabMoved ==
  \E windowId \in 1..numWindows, tab \in TabPoints :
    /\ SingleTabMovedEvent(windowId, tab)
    /\ UNCHANGED <<rendererVars, stripVars, pureVars, frameVars>>

(***************************************************************************)
(* APP_TAB_DRAG_MOUSEOVER_OTHER_WINDOW_TAB                                 *)
(***************************************************************************)
\* an event that carries no frame index
NoIndex == 0 - 1

\* MouseOverBranch without the checks for a pending attach or detach
MouseOverBranchWhilePending(st, destinationFrameIndex) ==
  IF ~(Has(st, stateKey) /\ Has(st[stateKey], "sourceTabId")) THEN "notDragging"
  ELSE IF getDragDetachedWindowId(st) = NoWindow THEN "notDetached"
  ELSE IF destinationFrameIndex = NoIndex THEN "noFrameIndex"
  ELSE "accepted"

\* the branch the event takes, lines 287-315
MouseOverBranch(st, destinationFrameIndex) ==
  IF ~(Has(st, stateKey) /\ Has(st[stateKey], "sourceTabId")) THEN "notDragging"
  ELSE IF Has(st[stateKey], "attachRequestedWindowId") THEN "attachPending"
  ELSE IF Has(st[stateKey], "detachToRequestedWindowId") THEN "detachPending"
  ELSE IF getDragDetachedWindowId(st) = NoWindow THEN "notDetached"
  ELSE IF destinationFrameIndex = NoIndex THEN "noFrameIndex"
  ELSE "accepted"

\* MouseOverUpdate that takes the sender for the current window at once
MouseOverUpdateEager(st, senderWindowId, detachedWindowId, point) ==
  MergeIn(st,
    [ dragWindowClientX |-> point[1],
      dragWindowClientY |-> point[2],
      attachRequestedWindowId |-> senderWindowId,
      bufferWindowId |-> detachedWindowId,
      currentWindowId |-> senderWindowId ])

\* lines 319-324
MouseOverUpdate(st, senderWindowId, detachedWindowId, point) ==
  MergeIn(st,
    [ dragWindowClientX |-> point[1],
      dragWindowClientY |-> point[2],
      attachRequestedWindowId |-> senderWindowId,
      bufferWindowId |-> detachedWindowId ])

\* the windows that show a tab the pointer can enter
WindowsWithTabs == (HostWindows \cup {tabWindowId}) \cap (1..numWindows)

MouseOverEvent(senderWindowId, frameIndex) ==
    LET branch == MouseOverBranch(state, frameIndex)
        detachedWindowId == getDragDetachedWindowId(state)
    IN
    IF branch = "accepted"
      THEN /\ CanQueue
           /\ state' = MouseOverUpdate(state, senderWindowId, detachedWindowId,
                         getWindowClientPointAtCursor(senderWindowId, cursor, winPos))
           /\ immediates' = Append(immediates,
                [ type |-> "attach", detached |-> detachedWindowId,
                  sender |-> senderWindowId, index |-> frameIndex ])
           /\ lastEvent' = Event("MouseOver", branch)
           /\ UNCHANGED <<tabWindowId, tabIndex, cursor, numWindows, winPos, ignoreMouse,
                          alwaysOnTop, visible, dragBuffer, isWindows, asyncs, hist>>
      ELSE /\ lastEvent' = Event("MouseOver", branch)
           /\ UNCHANGED <<state, tabWindowId, tabIndex, cursor, numWindows, winPos,
                          ignoreMouse, alwaysOnTop, visible, dragBuffer, isWindows,
                          immediates, asyncs, hist>>

\* Tab.onMouseEnter: a window reports the tab the pointer entered while its copy of
\* the app state has a session whose currentWindowId is another window
MouseOverOtherWindowTab ==
  \E senderWindowId \in WindowsWithTabs, frameIndex \in FrameIndexes \cup {NoIndex} :
    /\ dragIntendedWindowId # NoWindow
    /\ senderWindowId # dragIntendedWindowId
    /\ MouseOverEvent(senderWindowId, frameIndex)
    /\ UNCHANGED <<rendererVars, stripVars, pureVars, frameVars>>

(***************************************************************************)
(* APP_TAB_DRAG_DETACH_REQUESTED                                           *)
(***************************************************************************)
\* props of lines 412-420
DetachUpdate(st, tabX, tabY, currentWindowId, bufferWindowId) ==
  MergeIn(st,
    [ detachedFromTabX |-> tabX,
      detachedFromTabY |-> tabY,
      detachedFromWindowId |-> currentWindowId,
      detachToRequestedWindowId |-> bufferWindowId ])

\* with no buffer window registered, bufferWindow.id throws: the callback is
\* queued already, the state is not replaced
DetachRequestedEvent(tab) ==
    IF ~HasSession
      THEN /\ lastEvent' = Event("DetachRequested", "noSession")
           /\ UNCHANGED <<state, tabWindowId, tabIndex, cursor, numWindows, winPos,
                          ignoreMouse, alwaysOnTop, visible, dragBuffer, isWindows,
                          immediates, asyncs, hist>>
      ELSE /\ CanQueue
           /\ dragBuffer' = NoWindow
           /\ immediates' = Append(immediates,
                [ type |-> "detach", buffer |-> dragBuffer, tabX |-> tab[1],
                  relativeTabX |-> Session.relativeXDragStart,
                  relativeClientY |-> Session.originClientY ])
           /\ state' = IF dragBuffer = NoWindow
                         THEN state
                         ELSE DetachUpdate(state, tab[1], tab[2], tabWindowId, dragBuffer)
           /\ lastEvent' = Event("DetachRequested",
                                 IF dragBuffer = NoWindow THEN "threw" ELSE "requested")
           /\ UNCHANGED <<tabWindowId, tabIndex, cursor, numWindows, winPos, ignoreMouse,
                          alwaysOnTop, visible, isWindows, asyncs, hist>>

DetachRequested ==
  \E tab \in TabPoints :
    /\ DetachRequestedEvent(tab)
    /\ UNCHANGED <<rendererVars, stripVars, pureVars, frameVars>>

(***************************************************************************)
(* The callbacks the reducer defers.                                       *)
(***************************************************************************)
\* Math.floor of a length given in 1/parts of a pixel
MathFloor(v, parts) == (v \div parts) * parts

\* the window position of lines 272-273 without the offset of the pointer in the tab
SingleTabWindowPositionOfCorner(parts, e, mouseScreenPos) ==
  << MathFloor(mouseScreenPos[1] - e.tabX - e.frameLeftWidth, parts),
     MathFloor(mouseScreenPos[2] - e.tabY - e.frameTopHeight, parts) >>

\* lines 272-273, windowX and windowY, with lengths in 1/parts of a pixel
SingleTabWindowPositionIn(parts, e, mouseScreenPos) ==
  << MathFloor(mouseScreenPos[1] - e.tabX - e.frameLeftWidth - e.relativeTabX, parts),
     MathFloor(mouseScreenPos[2] - e.tabY - e.frameTopHeight - e.relativeTabY, parts) >>

\* lines 272-273 where every length is a whole number of pixels
SingleTabWindowPosition(e, mouseScreenPos) ==
  SingleTabWindowPositionIn(1, e, mouseScreenPos)

\* the next setImmediate callback runs
RunImmediate ==
  /\ immediates # <<>>
  /\ UNCHANGED <<rendererVars, stripVars, pureVars, frameVars>>
  /\ lastEvent' = NoEvent
  /\ hist' = hist
  /\ LET e == Head(immediates)
         rest == Tail(immediates)
     IN
     CASE e.type = "positionBuffer" ->
            \* lines 54-58
            /\ winPos' = [winPos EXCEPT ![e.buffer] = e.pos]
            /\ immediates' = rest
            /\ UNCHANGED <<state, tabWindowId, tabIndex, cursor, numWindows, ignoreMouse,
                           alwaysOnTop, visible, dragBuffer, isWindows, asyncs>>
       [] e.type = "ignoreMouse" ->
            \* lines 65-80
            /\ ignoreMouse' = ignoreMouse \cup {e.win}
            /\ alwaysOnTop' = IF isWindows THEN alwaysOnTop \cup {e.win} ELSE alwaysOnTop
            /\ immediates' = rest
            /\ UNCHANGED <<state, tabWindowId, tabIndex, cursor, numWindows, winPos,
                           visible, dragBuffer, isWindows, asyncs>>
       [] e.type = "setTabIndex" ->
            \* lines 163-166
            /\ tabIndex' = e.index
            /\ immediates' = rest
            /\ UNCHANGED <<state, tabWindowId, cursor, numWindows, winPos, ignoreMouse,
                           alwaysOnTop, visible, dragBuffer, isWindows, asyncs>>
       [] e.type = "moveWindow" ->
            \* lines 261-283
            /\ winPos' = [winPos EXCEPT ![e.win] = SingleTabWindowPosition(e, cursor)]
            /\ ignoreMouse' = ignoreMouse \cup {e.win}
            /\ immediates' = Append(rest, [type |-> "restoreMouse", win |-> e.win])
            /\ UNCHANGED <<state, tabWindowId, tabIndex, cursor, numWindows, alwaysOnTop,
                           visible, dragBuffer, isWindows, asyncs>>
       [] e.type = "restoreMouse" ->
            \* lines 278-282
            /\ ignoreMouse' = ignoreMouse \ {e.win}
            /\ immediates' = rest
            /\ UNCHANGED <<state, tabWindowId, tabIndex, cursor, numWindows, winPos,
                           alwaysOnTop, visible, dragBuffer, isWindows, asyncs>>
       [] e.type = "attach" ->
            \* lines 329-338
            /\ dragBuffer' = e.detached
            /\ ignoreMouse' = ignoreMouse \ {e.detached}
            /\ alwaysOnTop' = alwaysOnTop \ {e.detached}
            /\ asyncs' = asyncs \cup
                 {[ type |-> "moveToAttach", to |-> e.sender, index |-> e.index,
                    detached |-> e.detached ]}
            /\ immediates' = rest
            /\ UNCHANGED <<state, tabWindowId, tabIndex, cursor, numWindows, winPos,
                           visible, isWindows>>
       [] e.type = "detach" ->
            \* lines 366-373; with no buffer window the callback throws
            /\ asyncs' = IF e.buffer = NoWindow
                           THEN asyncs
                           ELSE asyncs \cup
                                  {[ type |-> "moveToDetach", to |-> e.buffer,
                                     tabX |-> e.tabX, relativeTabX |-> e.relativeTabX,
                                     relativeClientY |-> e.relativeClientY ]}
            /\ immediates' = rest
            /\ UNCHANGED <<state, tabWindowId, tabIndex, cursor, numWindows, winPos,
                           ignoreMouse, alwaysOnTop, visible, dragBuffer, isWindows>>

\* a tabs.moveTo completes and calls back, or the 50ms timeout of the detach fires
CompleteAsync ==
  \E a \in asyncs :
    /\ lastEvent' = NoEvent
    /\ hist' = hist
    /\ UNCHANGED <<rendererVars, stripVars, pureVars, frameVars>>
    /\ CASE a.type = "moveToAttach" ->
           \* lines 338-349
           /\ tabWindowId' = a.to
           /\ tabIndex' = a.index
           /\ winPos' = [winPos EXCEPT ![a.detached] = winPos[a.to]]
           /\ asyncs' = asyncs \ {a}
           /\ UNCHANGED <<state, cursor, numWindows, ignoreMouse, alwaysOnTop, visible,
                          dragBuffer, isWindows, immediates>>
      [] a.type = "moveToDetach" ->
           \* lines 373-383
           /\ tabWindowId' = a.to
           /\ tabIndex' = 0
           /\ asyncs' = (asyncs \ {a}) \cup
                {[ type |-> "showBuffer", buffer |-> a.to, tabX |-> a.tabX,
                   relativeTabX |-> a.relativeTabX,
                   relativeClientY |-> a.relativeClientY ]}
           /\ UNCHANGED <<state, cursor, numWindows, winPos, ignoreMouse, alwaysOnTop,
                          visible, dragBuffer, isWindows, immediates>>
      [] a.type = "showBuffer" ->
           \* lines 383-407
           /\ visible' = visible \cup {a.buffer}
           /\ alwaysOnTop' = IF isWindows THEN alwaysOnTop \cup {a.buffer} ELSE alwaysOnTop
           /\ winPos' = [winPos EXCEPT ![a.buffer] =
                getWindowPositionForClientPointAtCursor(
                  <<a.relativeTabX + a.tabX, a.relativeClientY>>, cursor)]
           /\ asyncs' = asyncs \ {a}
           /\ UNCHANGED <<state, tabWindowId, tabIndex, cursor, numWindows, ignoreMouse,
                          dragBuffer, isWindows, immediates>>

\* the user moves the pointer
MoveCursor ==
  /\ cursor' \in Points \ {cursor}
  /\ UNCHANGED <<rendererVars, stripVars, pureVars, frameVars>>
  /\ UNCHANGED <<state, tabWindowId, tabIndex, numWindows, winPos, ignoreMouse,
                 alwaysOnTop, visible, dragBuffer, isWindows, immediates, asyncs,
                 lastEvent, hist>>

\* the windows receive the app state the store holds now
RendererUpdate ==
  /\ dragIntendedWindowId' = IF HasSession THEN Session.currentWindowId ELSE NoWindow
  /\ dragIntendedWindowId' # dragIntendedWindowId
  /\ UNCHANGED <<storeVars, stripVars, pureVars, frameVars>>

Next ==
  \/ SetState
  \/ DragStarted
  \/ DragCancelled
  \/ DragComplete
  \/ ChangeDisplayIndex
  \/ TabAttached
  \/ SingleTabMoved
  \/ MouseOverOtherWindowTab
  \/ DetachRequested
  \/ RunImmediate
  \/ CompleteAsync
  \/ MoveCursor
  \/ RendererUpdate

Spec == Init /\ [][Next]_vars

\* the events that set, confirm and end the waiting for an attach or a detach, with
\* the effects they defer
NextLive ==
  \/ DragStarted
  \/ DragCancelled
  \/ DragComplete
  \/ TabAttached
  \/ MouseOverOtherWindowTab
  \/ DetachRequested
  \/ RunImmediate
  \/ CompleteAsync
  \/ RendererUpdate

\* the callbacks the reducer queued do run, the tab moves and the timeout it asked
\* for do complete, and the TabAttached of a tab that has moved is delivered
SpecLive ==
  /\ Init
  /\ [][NextLive]_vars
  /\ WF_vars(RunImmediate)
  /\ WF_vars(CompleteAsync)
  /\ WF_vars(TabAttached)
(***************************************************************************)
(* One window's tab strip: the drag controller of the dragged tab          *)
(* (makeDraggableAndDetachable) and the page-change debounce of tabs.js.   *)
(***************************************************************************)
\* Settings.TABS_PER_PAGE
TabsPerPage == 2
\* index changes that may wait for the store's answer at once
MaxRequests == 2
\* the numbers of unpinned tabs of the window; with one the dragged tab is the
\* only tab of its window
TotalTabCounts == {1, 3, 4}

DRAG_DETACH_PX_THRESHOLD_X == 60
DRAG_DETACH_PX_THRESHOLD_INITIAL == 44
DRAG_DETACH_PX_THRESHOLD_POSTSORT == 80
DRAG_PAGEMOVE_PX_THRESHOLD == 38

\* what evaluateDraggingItemAndParentSize measures: the width of a tab and the
\* rectangle of the strip
TabWidth == 40
parentClientRect ==
  [ left |-> 0, y |-> 100, width |-> TabsPerPage * TabWidth, height |-> 30,
    windowWidth |-> TabsPerPage * TabWidth + 20 ]
\* props.relativeXDragStart
relativeXDragStart == 10
\* client points of the pointer: left of the page-move margin, over each slot of
\* the strip, right of the page-move margin, beyond the horizontal detach margin
PointerXs == {0 - 40, 10, 40, 80, 100, 170}
\* in the strip, below it by more than the initial detach margin, and by more
\* than the margin after a reorder
PointerYs == {110, 180, 220}

\* mergeProps: the first display index of the page shown, and the tabs on it
firstTabDisplayIndex(pageIndex) == pageIndex * TabsPerPage

displayedTabCount(pageIndex, total) ==
  IF total - firstTabDisplayIndex(pageIndex) < TabsPerPage
    THEN total - firstTabDisplayIndex(pageIndex)
    ELSE TabsPerPage

Max(a, b) == IF a > b THEN a ELSE b
Min(a, b) == IF a < b THEN a ELSE b

\* the branch detectDragIndexPosition takes in a strip of the width given
detectBranchIn(stripWidth, dragTabWidth, tabLeft) ==
  IF tabLeft < 0 - DRAG_PAGEMOVE_PX_THRESHOLD THEN "pastLeft"
  ELSE IF tabLeft + dragTabWidth > stripWidth + DRAG_PAGEMOVE_PX_THRESHOLD
    THEN "pastRight"
  ELSE "within"

\* the branch detectDragIndexPosition takes
detectBranch(dragTabWidth, tabLeft) ==
  detectBranchIn(parentClientRect.width, dragTabWidth, tabLeft)

\* detectDragIndexPosition with the limits to [0, totalTabCount - 1] left out
detectDragIndexPositionUnlimited(tabWidth, dragTabWidth, tabLeft, total, first, displayed) ==
  CASE detectBranch(dragTabWidth, tabLeft) = "pastLeft" -> first - 1
    [] detectBranch(dragTabWidth, tabLeft) = "pastRight" -> first + displayed
    [] OTHER -> first + ((2 * tabLeft - tabWidth) \div (2 * tabWidth)) + 1

\* detectDragIndexPosition that counts the slots from the left edge of the
\* dragged tab and not from half a tab width before it
detectDragIndexPositionFromEdge(stripWidth, tabWidth, dragTabWidth, tabLeft, total, first, displayed) ==
  CASE detectBranchIn(stripWidth, dragTabWidth, tabLeft) = "pastLeft" -> Max(0, first - 1)
    [] detectBranchIn(stripWidth, dragTabWidth, tabLeft) = "pastRight" ->
         Min(total - 1, first + displayed)
    [] OTHER -> Max(0, Min(total - 1, first + (tabLeft \div tabWidth) + 1))

\* detectDragIndexPosition, lines 285-308, with this.parentClientRect.width and the
\* props it reads as arguments;
\* Math.floor((tabLeft - tabWidth / 2) / tabWidth) is (2 tabLeft - tabWidth) \div (2 tabWidth)
detectDragIndexPositionIn(stripWidth, tabWidth, dragTabWidth, tabLeft, total, first, displayed) ==
  CASE detectBranchIn(stripWidth, dragTabWidth, tabLeft) = "pastLeft" -> Max(0, first - 1)
    [] detectBranchIn(stripWidth, dragTabWidth, tabLeft) = "pastRight" ->
         Min(total - 1, first + displayed)
    [] OTHER ->
         Max(0, Min(total - 1,
                    first + ((2 * tabLeft - tabWidth) \div (2 * tabWidth)) + 1))

\* detectDragIndexPosition in the strip the controller has measured
detectDragIndexPosition(tabWidth, dragTabWidth, tabLeft, total, first, displayed) ==
  detectDragIndexPositionIn(parentClientRect.width, tabWidth, dragTabWidth, tabLeft,
                            total, first, displayed)

\* the branch onDragChangeIndex takes
changeIndexBranch(index, first, displayed, destinationIndex) ==
  IF index = destinationIndex THEN "same"
  ELSE IF destinationIndex < first THEN "previousPage"
  ELSE IF destinationIndex > first + displayed - 1 THEN "nextPage"
  ELSE "inPage"

\* the index changes onDragChangeIndex issues: none or one
changeIndexIssued(index, first, displayed, destinationIndex) ==
  LET branch == changeIndexBranch(index, first, displayed, destinationIndex)
      lastIndexOnCurrentPage == first + displayed - 1
  IN
  CASE branch = "nextPage" ->
         IF index # lastIndexOnCurrentPage THEN <<lastIndexOnCurrentPage>> ELSE <<>>
    [] branch = "previousPage" -> IF index # first THEN <<first>> ELSE <<>>
    [] branch = "inPage" -> <<destinationIndex>>
    [] OTHER -> <<>>

\* changeIndexTimeout that lets the pending timer be when the destination is in the page
changeIndexTimeoutKept(timeout, index, first, displayed, destinationIndex) ==
  IF changeIndexBranch(index, first, displayed, destinationIndex)
       \in {"nextPage", "previousPage"}
    THEN IF timeout # <<>> THEN timeout ELSE <<destinationIndex>>
    ELSE timeout

\* draggingMoveTabPageTimeout after onDragChangeIndex: a timer that is pending
\* goes on with the destination it was started for
changeIndexTimeout(timeout, index, first, displayed, destinationIndex) ==
  IF changeIndexBranch(index, first, displayed, destinationIndex)
       \in {"nextPage", "previousPage"}
    THEN IF timeout # <<>> THEN timeout ELSE <<destinationIndex>>
    ELSE <<>>

\* the pausing marker after onDragChangeIndex
changeIndexPausing(pausing, timeout, pageIndex, index, first, displayed, destinationIndex) ==
  IF changeIndexBranch(index, first, displayed, destinationIndex)
       \in {"nextPage", "previousPage"}
    THEN IF timeout # <<>>
           THEN pausing
           ELSE <<pageIndex + (IF destinationIndex > first THEN 1 ELSE 0 - 1)>>
    ELSE IF timeout # <<>> THEN <<>> ELSE pausing

StripEvent(type, detect, branch) == [type |-> type, detect |-> detect, branch |-> branch]

\* the drag has begun in the window; the handlers of the dragged tab's controller
\* are attached and the first measurement is queued
InitStrip ==
  /\ DetectQuiet
  /\ GeometryQuiet
  /\ FrameQuiet
  /\ state = EmptyMap
  /\ tabWindowId = 1
  /\ tabIndex = 0
  /\ cursor = <<2, 5>>
  /\ numWindows = 1
  /\ winPos = [w \in Windows |-> StartPosition]
  /\ ignoreMouse = {}
  /\ alwaysOnTop = {}
  /\ visible = {1}
  /\ dragBuffer = NoWindow
  /\ isWindows = FALSE
  /\ immediates = <<>>
  /\ asyncs = {}
  /\ lastEvent = NoEvent
  /\ dragIntendedWindowId = NoWindow
  /\ hist = "none"
  /\ totalTabCount \in TotalTabCounts
  /\ displayIndex \in 0..(totalTabCount - 1)
  /\ tabPageIndex = displayIndex \div TabsPerPage
  /\ dragCanDetach \in BOOLEAN
  /\ measured = FALSE
  /\ hasParentClientRect = FALSE
  /\ suspendOrderChangeUntilUpdate = FALSE
  /\ draggingDetachThreshold = DRAG_DETACH_PX_THRESHOLD_INITIAL
  /\ draggingDetachTimeout = "none"
  /\ hasRequestedDetach = FALSE
  /\ draggingMoveTabPageTimeout = <<>>
  /\ pausingForPageIndex = <<>>
  /\ indexChanges = <<>>
  /\ detachRequests = 0
  /\ stripEvent = StripEvent("none", "none", "none")
  /\ isDragging = TRUE
  /\ mounted = TRUE
  /\ measurePending = TRUE
  /\ throttleWaiting = FALSE
  /\ throttledEvent = <<>>
  /\ singleTabMoves = 0
  /\ detachTimers = 0
  /\ pageTimers = 0
  /\ pointerOutside = FALSE
  /\ dragProcessMoves = TRUE
  /\ awaitingIndexChange = FALSE
  /\ reorderedSinceAttach = FALSE

\* lines 243-247: the pointer is beyond a detach margin
isOutsideBounds(clientX, clientY, threshold) ==
  \/ clientX < 0 - DRAG_DETACH_PX_THRESHOLD_X
  \/ clientX > parentClientRect.windowWidth + DRAG_DETACH_PX_THRESHOLD_X
  \/ clientY < parentClientRect.y - threshold
  \/ clientY > parentClientRect.y + parentClientRect.height + threshold

\* line 238: the left edge of the dragged tab in the strip
tabLeftAt(clientX) == clientX - parentClientRect.left - relativeXDragStart

\* a strip step that changes nothing but the record of the step and, as the
\* caller says, the throttle
StripStepOnly(type, branch) ==
  /\ stripEvent' = StripEvent(type, "none", branch)
  /\ UNCHANGED <<displayIndex, tabPageIndex, totalTabCount, dragCanDetach, measured,
                 hasParentClientRect, suspendOrderChangeUntilUpdate,
                 draggingDetachThreshold, draggingDetachTimeout, hasRequestedDetach,
                 draggingMoveTabPageTimeout, pausingForPageIndex, indexChanges,
                 detachRequests, isDragging, mounted, measurePending, singleTabMoves,
                 detachTimers, pageTimers>>

\* line 250 with a timer set whatever the handle holds
startDetachTimerAlways(timeout) == 1

\* line 250: the timers setTimeout adds; none when the handle holds a timer,
\* live or not
startDetachTimer(timeout) == IF timeout = "none" THEN 1 ELSE 0

\* window.clearTimeout(this.draggingDetachTimeout): the timers it takes away
clearDetachTimer(timeout) == IF timeout = "pending" THEN 1 ELSE 0

\* the page-change timers after onDragChangeIndex
changeIndexTimers(timers, timeout, index, first, displayed, destinationIndex) ==
  IF changeIndexBranch(index, first, displayed, destinationIndex)
       \in {"nextPage", "previousPage"}
    THEN IF timeout # <<>> THEN timers ELSE timers + 1
    ELSE IF timeout # <<>> THEN timers - 1 ELSE timers

\* timers a window may hold at once before the model stops counting
MaxTimers == 2

\* lines 273-276 with an answer that is never taken for pending
suspendAfterRequestNever(suspended, issued) == suspended

\* lines 273-276: the controller suspends the detection when onDragChangeIndex
\* answers that the index change is pending, which it does when it has issued one
suspendAfterRequest(suspended, issued) == IF issued # <<>> THEN TRUE ELSE suspended

\* onTabDraggingMouseMoveDetectSortChange with the onDragChangeIndex of tabs.js
\* it calls; it reads the props of the moment it runs, and a tab that is not
\* dragging has no dragCanDetach and no relativeXDragStart
DetectSortChange(type, clientX, clientY) ==
  LET first == firstTabDisplayIndex(tabPageIndex)
      displayed == displayedTabCount(tabPageIndex, totalTabCount)
      tabLeft == IF isDragging THEN tabLeftAt(clientX)
                               ELSE clientX - parentClientRect.left
      destinationIndex ==
        detectDragIndexPosition(TabWidth, TabWidth, tabLeft, totalTabCount, first, displayed)
      issued == changeIndexIssued(displayIndex, first, displayed, destinationIndex)
      canDetach == isDragging /\ dragCanDetach
  IN
  IF ~measured THEN StripStepOnly(type, "unmeasured")
  ELSE IF suspendOrderChangeUntilUpdate THEN StripStepOnly(type, "suspended")
  ELSE IF canDetach /\ isOutsideBounds(clientX, clientY, draggingDetachThreshold)
    THEN /\ detachTimers + startDetachTimer(draggingDetachTimeout) <= MaxTimers
         /\ draggingDetachTimeout' =
              IF startDetachTimer(draggingDetachTimeout) > 0
                THEN "pending" ELSE draggingDetachTimeout
         /\ detachTimers' = detachTimers + startDetachTimer(draggingDetachTimeout)
         /\ stripEvent' = StripEvent(type, "none", "outside")
         /\ UNCHANGED <<displayIndex, tabPageIndex, totalTabCount, dragCanDetach,
                        measured, hasParentClientRect, suspendOrderChangeUntilUpdate,
                        draggingDetachThreshold, hasRequestedDetach,
                        draggingMoveTabPageTimeout, pausingForPageIndex, indexChanges,
                        detachRequests, isDragging, mounted, measurePending,
                        singleTabMoves, pageTimers>>
    ELSE /\ Len(indexChanges) + Len(issued) <= MaxRequests
         /\ draggingDetachTimeout' =
              IF canDetach THEN "none" ELSE draggingDetachTimeout
         /\ detachTimers' =
              IF canDetach THEN detachTimers - clearDetachTimer(draggingDetachTimeout)
                           ELSE detachTimers
         /\ indexChanges' = indexChanges \o issued
         /\ draggingMoveTabPageTimeout' =
              changeIndexTimeout(draggingMoveTabPageTimeout, displayIndex, first,
                                 displayed, destinationIndex)
         /\ pageTimers' =
              changeIndexTimers(pageTimers, draggingMoveTabPageTimeout, displayIndex,
                                first, displayed, destinationIndex)
         /\ pausingForPageIndex' =
              changeIndexPausing(pausingForPageIndex, draggingMoveTabPageTimeout,
                                 tabPageIndex, displayIndex, first, displayed,
                                 destinationIndex)
         /\ suspendOrderChangeUntilUpdate' =
              suspendAfterRequest(suspendOrderChangeUntilUpdate, issued)
         /\ draggingDetachThreshold' =
              IF displayIndex # destinationIndex
                THEN DRAG_DETACH_PX_THRESHOLD_POSTSORT
                ELSE draggingDetachThreshold
         /\ stripEvent' =
              StripEvent(type, detectBranch(TabWidth, tabLeft),
                         changeIndexBranch(displayIndex, first, displayed,
                                           destinationIndex))
         /\ UNCHANGED <<displayIndex, tabPageIndex, totalTabCount, dragCanDetach,
                        measured, hasParentClientRect, hasRequestedDetach, detachRequests,
                        isDragging, mounted, measurePending, singleTabMoves>>

\* a controller that never takes its tab for the only tab of the window
dragSingleTabNever(total) == FALSE

\* props.dragSingleTab: Tabs.render passes singleTab = (totalTabCount === 1)
dragSingleTab(total) == total = 1

\* onTabDraggingMouseMove from line 193 on, the listener of a tab that is
\* dragging in a window that processes the moves (in a window that does not,
\* line 193 skips it): the window-move intent of the only tab of a window, or
\* the throttled sort detection, which runs at once when the throttle is not in
\* its wait and else is held for the trailing call. The frame that lines 188-190
\* request for dragTab is followed in DragTabMouseMove
TabDraggingMouseMoveEvent(clientX, clientY) ==
  /\ isDragging
  /\ dragProcessMoves
  /\ IF dragSingleTab(totalTabCount)
       THEN IF mounted
              THEN /\ singleTabMoves < MaxRequests
                   /\ singleTabMoves' = singleTabMoves + 1
                   /\ stripEvent' = StripEvent("mouseMove", "none", "singleTabMoved")
                   /\ UNCHANGED <<displayIndex, tabPageIndex, totalTabCount,
                                  dragCanDetach, measured, hasParentClientRect,
                                  suspendOrderChangeUntilUpdate, draggingDetachThreshold,
                                  draggingDetachTimeout, hasRequestedDetach,
                                  draggingMoveTabPageTimeout, pausingForPageIndex,
                                  indexChanges, detachRequests, isDragging, mounted,
                                  measurePending, throttleWaiting, throttledEvent,
                                  detachTimers, pageTimers>>
              ELSE /\ StripStepOnly("mouseMove", "noElement")
                   /\ UNCHANGED <<throttleWaiting, throttledEvent>>
     ELSE IF hasRequestedDetach
       THEN /\ StripStepOnly("mouseMove", "detachRequested")
            /\ UNCHANGED <<throttleWaiting, throttledEvent>>
     ELSE IF throttleWaiting
       THEN /\ StripStepOnly("mouseMove", "throttled")
            /\ throttledEvent' = <<clientX, clientY>>
            /\ UNCHANGED throttleWaiting
     ELSE /\ DetectSortChange("mouseMove", clientX, clientY)
          /\ throttleWaiting' = TRUE
          /\ UNCHANGED throttledEvent

TabDraggingMouseMove ==
  \E clientX \in PointerXs, clientY \in PointerYs :
    /\ TabDraggingMouseMoveEvent(clientX, clientY)
    /\ pointerOutside' = isOutsideBounds(clientX, clientY, draggingDetachThreshold)
    /\ awaitingIndexChange' =
         (awaitingIndexChange \/ Len(indexChanges') > Len(indexChanges))
    /\ UNCHANGED <<storeVars, rendererVars, pureVars, frameVars, dragProcessMoves,
                   reorderedSinceAttach>>

\* the wait of the throttle ends: the sort detection runs with the event held
\* for it, if any, whatever has happened to the controller since
ThrottleFires ==
  /\ throttleWaiting
  /\ throttleWaiting' = FALSE
  /\ throttledEvent' = <<>>
  /\ IF throttledEvent = <<>>
       THEN StripStepOnly("throttleEnd", "none")
       ELSE DetectSortChange("throttled", throttledEvent[1], throttledEvent[2])
  /\ awaitingIndexChange' =
       (awaitingIndexChange \/ Len(indexChanges') > Len(indexChanges))
  /\ UNCHANGED <<storeVars, rendererVars, pureVars, frameVars, pointerOutside,
                 dragProcessMoves, reorderedSinceAttach>>

\* the animation frame that measures the dragged tab and the strip, if the
\* element is still there
EvaluateDraggingTabWidth ==
  /\ measurePending
  /\ measurePending' = FALSE
  /\ measured' = IF mounted THEN TRUE ELSE measured
  /\ hasParentClientRect' = IF mounted THEN TRUE ELSE hasParentClientRect
  /\ stripEvent' = StripEvent("measure", "none", "none")
  /\ UNCHANGED <<displayIndex, tabPageIndex, totalTabCount, dragCanDetach,
                 suspendOrderChangeUntilUpdate, draggingDetachThreshold,
                 draggingDetachTimeout, hasRequestedDetach, draggingMoveTabPageTimeout,
                 pausingForPageIndex, indexChanges, detachRequests, isDragging, mounted,
                 throttleWaiting, throttledEvent, singleTabMoves, detachTimers,
                 pageTimers>>
  /\ UNCHANGED <<storeVars, rendererVars, pureVars, frameVars, pointerOutside,
                 dragProcessMoves, awaitingIndexChange, reorderedSinceAttach>>

\* a detach-confirmation timer fires
DetachTimeoutFires ==
  /\ detachTimers > 0
  /\ detachRequests < MaxRequests
  /\ detachTimers' = detachTimers - 1
  /\ draggingDetachTimeout' =
       IF draggingDetachTimeout = "pending" /\ detachTimers = 1
         THEN "fired" ELSE draggingDetachTimeout
  /\ hasRequestedDetach' = TRUE
  /\ detachRequests' = detachRequests + 1
  /\ stripEvent' = StripEvent("detachTimeout", "none", "none")
  /\ UNCHANGED <<displayIndex, tabPageIndex, totalTabCount, dragCanDetach, measured,
                 hasParentClientRect, suspendOrderChangeUntilUpdate,
                 draggingDetachThreshold, draggingMoveTabPageTimeout, pausingForPageIndex,
                 indexChanges, isDragging, mounted, measurePending, throttleWaiting,
                 throttledEvent, singleTabMoves, pageTimers>>
  /\ UNCHANGED <<storeVars, rendererVars, pureVars, frameVars, pointerOutside,
                 dragProcessMoves, awaitingIndexChange, reorderedSinceAttach>>

\* a callback of the page-change timer that issues nothing
timeoutCallbackSilent(timeout) == <<>>

\* lines 109-112: the index change the callback of the page-change timer issues,
\* to the destination the timer was started with
timeoutCallbackIssued(timeout) == timeout

\* the page-change timer fires, DRAG_PAGEMOVE_MS_TIME_BUFFER after it was started:
\* its callback clears the handle and the pausing marker
\* (clearDragPageIndexMoveTimeout) and issues the index change
PageTimeoutFires ==
  /\ pageTimers > 0
  /\ draggingMoveTabPageTimeout # <<>>
  /\ Len(indexChanges) < MaxRequests
  /\ pageTimers' = pageTimers - 1
  /\ draggingMoveTabPageTimeout' = <<>>
  /\ pausingForPageIndex' = <<>>
  /\ indexChanges' = indexChanges \o timeoutCallbackIssued(draggingMoveTabPageTimeout)
  /\ stripEvent' = StripEvent("pageTimeout", "none", "none")
  /\ UNCHANGED <<displayIndex, tabPageIndex, totalTabCount, dragCanDetach, measured,
                 hasParentClientRect, suspendOrderChangeUntilUpdate,
                 draggingDetachThreshold, draggingDetachTimeout, hasRequestedDetach,
                 detachRequests, isDragging, mounted, measurePending, throttleWaiting,
                 throttledEvent, singleTabMoves, detachTimers>>
  /\ UNCHANGED <<storeVars, rendererVars, pureVars, frameVars, pointerOutside,
                 dragProcessMoves, awaitingIndexChange, reorderedSinceAttach>>

\* the page that shows the tab at a display index
pageOfIndex(index) == index \div TabsPerPage

\* dragTab, lines 207-213: the handle of the frame after the call; it is
\* forgotten only when the element and the rectangle of the strip are there
dragTab(frame, element, rect) == IF element /\ rect THEN FALSE ELSE frame

\* the store has moved the tab to the index asked for, and the strip has rendered
\* again: componentDidUpdate of the controller of a tab that is dragging; with a
\* new index and an x kept from the last dragTab, lines 94-97 call dragTab
IndexChangeApplied ==
  /\ indexChanges # <<>>
  /\ isDragging
  /\ LET index == Head(indexChanges) IN
     /\ displayIndex' = index
     /\ tabPageIndex' = pageOfIndex(index)
     /\ measured' = IF pageOfIndex(index) # tabPageIndex THEN FALSE ELSE measured
     /\ measurePending' =
          IF pageOfIndex(index) # tabPageIndex THEN TRUE ELSE measurePending
     /\ suspendOrderChangeUntilUpdate' =
          IF index # displayIndex THEN FALSE ELSE suspendOrderChangeUntilUpdate
     /\ stripEvent' = StripEvent("applied", "none",
                                 IF pageOfIndex(index) # tabPageIndex
                                   THEN "pageChanged" ELSE "samePage")
  /\ indexChanges' = Tail(indexChanges)
  /\ UNCHANGED <<totalTabCount, dragCanDetach, hasParentClientRect,
                 draggingDetachThreshold, draggingDetachTimeout, hasRequestedDetach,
                 draggingMoveTabPageTimeout, pausingForPageIndex, detachRequests,
                 isDragging, mounted, throttleWaiting, throttledEvent, singleTabMoves,
                 detachTimers, pageTimers>>
  /\ awaitingIndexChange' = (awaitingIndexChange /\ displayIndex' = displayIndex)
  /\ reorderedSinceAttach' = (reorderedSinceAttach \/ displayIndex' # displayIndex)
  /\ dragTabMouseMoveFrame' =
       IF displayIndex' # displayIndex /\ currentMouseX
         THEN dragTab(dragTabMouseMoveFrame, mounted, hasParentClientRect)
         ELSE dragTabMouseMoveFrame
  /\ currentMouseX' = (currentMouseX /\ displayIndex' = displayIndex)
  /\ UNCHANGED <<storeVars, rendererVars, pureVars, dragTabFrames, pointerOutside,
                 dragProcessMoves>>

\* the store has dropped the index change
IndexChangeDropped ==
  /\ indexChanges # <<>>
  /\ indexChanges' = Tail(indexChanges)
  /\ stripEvent' = StripEvent("dropped", "none", "none")
  /\ UNCHANGED <<displayIndex, tabPageIndex, totalTabCount, dragCanDetach, measured,
                 hasParentClientRect, suspendOrderChangeUntilUpdate,
                 draggingDetachThreshold, draggingDetachTimeout, hasRequestedDetach,
                 draggingMoveTabPageTimeout, pausingForPageIndex, detachRequests,
                 isDragging, mounted, measurePending, throttleWaiting, throttledEvent,
                 singleTabMoves, detachTimers, pageTimers>>
  /\ UNCHANGED <<storeVars, rendererVars, pureVars, frameVars, pointerOutside,
                 dragProcessMoves, awaitingIndexChange, reorderedSinceAttach>>

\* removeDragSortHandlers, lines 156-159: the detach timers left after
\* window.clearTimeout(this.draggingDetachTimeout)
removeDragSortHandlers(timers, timeout) == timers - clearDetachTimer(timeout)

\* removeDragSortHandlers: the measurements and the suspension are forgotten, the
\* listener is removed and the detach timer is cleared; its handle is kept, and
\* the throttle, a queued measurement and the page-change timer of tabs.js are
\* left as they are
TearDown(type, stillMounted) ==
  /\ isDragging
  /\ mounted
  /\ isDragging' = FALSE
  /\ dragProcessMoves' = FALSE
  /\ awaitingIndexChange' = FALSE
  /\ reorderedSinceAttach' = FALSE
  /\ mounted' = stillMounted
  /\ measured' = FALSE
  /\ hasParentClientRect' = FALSE
  /\ suspendOrderChangeUntilUpdate' = FALSE
  /\ detachTimers' = removeDragSortHandlers(detachTimers, draggingDetachTimeout)
  /\ draggingDetachTimeout' =
       IF draggingDetachTimeout = "pending" THEN "cleared" ELSE draggingDetachTimeout
  /\ draggingDetachThreshold' =
       IF draggingDetachTimeout # "none" THEN 0 ELSE draggingDetachThreshold
  /\ stripEvent' = StripEvent(type, "none", "none")
  /\ UNCHANGED <<displayIndex, tabPageIndex, totalTabCount, dragCanDetach,
                 hasRequestedDetach, draggingMoveTabPageTimeout, pausingForPageIndex,
                 indexChanges, detachRequests, measurePending, throttleWaiting,
                 throttledEvent, singleTabMoves, pageTimers>>

\* componentDidUpdate, lines 73-75: the tab stops dragging and stays in the strip
DragEnds ==
  /\ TearDown("dragEnds", TRUE)
  /\ UNCHANGED <<storeVars, rendererVars, pureVars, frameVars, pointerOutside>>

\* componentWillUnmount of a tab that is dragging: the tab leaves the strip
Unmount ==
  /\ TearDown("unmount", FALSE)
  /\ UNCHANGED <<storeVars, rendererVars, pureVars, frameVars, pointerOutside>>

\* the window renders the dragging tab from a newer copy of the session, in which
\* an attach or a detach is pending or another window is the current one: this
\* window no longer processes the moves (tab.js lines 282-286 and 667-671)
PropsUpdate ==
  /\ isDragging
  /\ dragProcessMoves
  /\ dragProcessMoves' = FALSE
  /\ StripStepOnly("props", "none")
  /\ UNCHANGED <<throttleWaiting, throttledEvent>>
  /\ UNCHANGED <<storeVars, rendererVars, pureVars, frameVars, pointerOutside,
                 awaitingIndexChange, reorderedSinceAttach>>

\* componentDidUpdate, lines 58-72: the tab of a controller that was torn down
\* is dragged again; attachDragSortHandlers
DragBeginsAgain ==
  /\ ~isDragging
  /\ mounted
  /\ isDragging' = TRUE
  /\ dragProcessMoves' = TRUE
  /\ measurePending' = TRUE
  /\ draggingDetachThreshold' = DRAG_DETACH_PX_THRESHOLD_INITIAL
  /\ stripEvent' = StripEvent("dragBegins", "none", "none")
  /\ UNCHANGED <<displayIndex, tabPageIndex, totalTabCount, dragCanDetach, measured,
                 hasParentClientRect, suspendOrderChangeUntilUpdate,
                 draggingDetachTimeout, hasRequestedDetach, draggingMoveTabPageTimeout,
                 pausingForPageIndex, indexChanges, detachRequests, mounted,
                 throttleWaiting, throttledEvent, singleTabMoves, detachTimers,
                 pageTimers>>
  /\ reorderedSinceAttach' = FALSE
  /\ UNCHANGED <<storeVars, rendererVars, pureVars, frameVars, pointerOutside,
                 awaitingIndexChange>>

NextStrip ==
  \/ TabDraggingMouseMove
  \/ ThrottleFires
  \/ EvaluateDraggingTabWidth
  \/ DetachTimeoutFires
  \/ PageTimeoutFires
  \/ IndexChangeApplied
  \/ IndexChangeDropped
  \/ DragEnds
  \/ Unmount
  \/ DragBeginsAgain
  \/ PropsUpdate

SpecStrip == InitStrip /\ [][NextStrip]_vars

\* one drag that goes on in the window: the controller stays attached and keeps
\* processing the moves. The store answers every index change, and the throttle,
\* the animation frame and the timers that are due run
NextStripLive ==
  \/ TabDraggingMouseMove
  \/ ThrottleFires
  \/ EvaluateDraggingTabWidth
  \/ DetachTimeoutFires
  \/ PageTimeoutFires
  \/ IndexChangeApplied
  \/ IndexChangeDropped

SpecStripLive ==
  /\ InitStrip
  /\ [][NextStripLive]_vars
  /\ WF_vars(ThrottleFires)
  /\ WF_vars(EvaluateDraggingTabWidth)
  /\ WF_vars(DetachTimeoutFires)
  /\ WF_vars(PageTimeoutFires)
  /\ WF_vars(IndexChangeApplied \/ IndexChangeDropped)

(***************************************************************************)
(* The translation of the dragged tab: onTabDraggingMouseMove asks for one *)
(* animation frame for dragTab and keeps its handle in                     *)
(* dragTabMouseMoveFrame until dragTab has moved the element.              *)
(***************************************************************************)

\* the pointer positions of the moves that are followed up to the frame
FramePointerXs == {100}
FramePointerYs == {110, 220}

\* the frames for dragTab that may wait at a time
MaxFrames == 2

\* lines 188-190: a frame is requested when the tab is not the only one of its
\* window and no handle is held
frameRequested(frame, single) == ~single /\ ~frame

\* onTabDraggingMouseMove, lines 187-205, the whole listener: the request of the
\* frame, then, in a window that processes the moves, TabDraggingMouseMoveEvent
DragTabMouseMove ==
  /\ isDragging
  /\ \E clientX \in FramePointerXs, clientY \in FramePointerYs :
       /\ IF frameRequested(dragTabMouseMoveFrame, dragSingleTab(totalTabCount))
            THEN /\ Len(dragTabFrames) < MaxFrames
                 /\ dragTabMouseMoveFrame' = TRUE
                 /\ dragTabFrames' = Append(dragTabFrames, measurePending)
            ELSE UNCHANGED <<dragTabMouseMoveFrame, dragTabFrames>>
       /\ IF dragProcessMoves
            THEN /\ TabDraggingMouseMoveEvent(clientX, clientY)
                 /\ pointerOutside' =
                      isOutsideBounds(clientX, clientY, draggingDetachThreshold)
                 /\ awaitingIndexChange' =
                      (awaitingIndexChange \/ Len(indexChanges') > Len(indexChanges))
            ELSE /\ StripStepOnly("mouseMove", "notProcessed")
                 /\ UNCHANGED <<throttleWaiting, throttledEvent, pointerOutside,
                                awaitingIndexChange>>
  /\ UNCHANGED <<storeVars, rendererVars, pureVars, currentMouseX, dragProcessMoves,
                 reorderedSinceAttach>>

\* the animation frame when no frame for dragTab waits: the measurement alone
MeasureFrame ==
  /\ dragTabFrames = <<>>
  /\ EvaluateDraggingTabWidth

\* the animation frame when frames for dragTab wait: the callbacks run in the
\* order of their requests, so a measurement requested before a dragTab has set
\* the rectangle of the strip when the element is there; each dragTab keeps the
\* x of its event (line 210) and forgets the handle unless it returns at line 212
DragTabFrame ==
  /\ dragTabFrames # <<>>
  /\ LET rectMeasured == IF mounted THEN TRUE ELSE hasParentClientRect
         rectAt(i) == IF measurePending /\ dragTabFrames[i]
                        THEN rectMeasured ELSE hasParentClientRect
         moved == \E i \in 1..Len(dragTabFrames) : mounted /\ rectAt(i)
     IN /\ dragTabMouseMoveFrame' = dragTab(dragTabMouseMoveFrame, moved, moved)
        /\ stripEvent' = StripEvent("frame", "none",
                                    IF moved THEN "translated" ELSE "returned")
  /\ dragTabFrames' = <<>>
  /\ currentMouseX' = TRUE
  /\ measurePending' = FALSE
  /\ measured' = IF measurePending /\ mounted THEN TRUE ELSE measured
  /\ hasParentClientRect' =
       IF measurePending /\ mounted THEN TRUE ELSE hasParentClientRect
  /\ UNCHANGED <<displayIndex, tabPageIndex, totalTabCount, dragCanDetach,
                 suspendOrderChangeUntilUpdate, draggingDetachThreshold,
                 draggingDetachTimeout, hasRequestedDetach, draggingMoveTabPageTimeout,
                 pausingForPageIndex, indexChanges, detachRequests, isDragging, mounted,
                 throttleWaiting, throttledEvent, singleTabMoves, detachTimers,
                 pageTimers>>
  /\ UNCHANGED <<storeVars, rendererVars, pureVars, pointerOutside, dragProcessMoves,
                 awaitingIndexChange, reorderedSinceAttach>>

NextFrame ==
  \/ DragTabMouseMove
  \/ DragTabFrame
  \/ MeasureFrame
  \/ ThrottleFires
  \/ DetachTimeoutFires
  \/ PageTimeoutFires
  \/ IndexChangeApplied
  \/ IndexChangeDropped
  \/ DragEnds
  \/ Unmount
  \/ DragBeginsAgain
  \/ PropsUpdate

SpecFrame == InitStrip /\ [][NextFrame]_vars

(***************************************************************************)
(* detectDragIndexPosition on its own: one call with arguments drawn from  *)
(* bounded ranges.                                                         *)
(***************************************************************************)
\* widths of the strip, of the tabs that are not dragged and of the dragged tab
StripWidths == {80, 95}
TabWidths == {30, 40, 45}
DragTabWidths == {40, 60}
\* the left edge of the dragged tab in the strip
MinTabLeft == 0 - 60
MaxTabLeft == 140
\* the most tabs a window has
MaxTotalTabCount == 5

\* no drag in the store, and a strip in which no tab is dragged
StoreQuiet ==
  /\ state = EmptyMap
  /\ tabWindowId = 1
  /\ tabIndex = 0
  /\ cursor = <<2, 5>>
  /\ numWindows = 1
  /\ winPos = [w \in Windows |-> StartPosition]
  /\ ignoreMouse = {}
  /\ alwaysOnTop = {}
  /\ visible = {1}
  /\ dragBuffer = NoWindow
  /\ isWindows = FALSE
  /\ immediates = <<>>
  /\ asyncs = {}
  /\ lastEvent = NoEvent
  /\ dragIntendedWindowId = NoWindow
  /\ hist = "none"

\* the arguments of a call: the strip shows a page of a window with at least one
\* tab, and the widths are those of elements that were measured
InitDetect ==
  /\ StoreQuiet
  /\ StripQuiet
  /\ GeometryQuiet
  /\ FrameQuiet
  /\ detectResult = <<>>
  /\ \E stripWidth \in StripWidths, tabWidth \in TabWidths, dragTabWidth \in DragTabWidths,
        tabLeft \in MinTabLeft..MaxTabLeft, total \in 1..MaxTotalTabCount :
       \E page \in 0..((total - 1) \div TabsPerPage) :
         detectArgs = [ stripWidth |-> stripWidth, tabWidth |-> tabWidth,
                        dragTabWidth |-> dragTabWidth, tabLeft |-> tabLeft,
                        totalTabCount |-> total,
                        firstTabDisplayIndex |-> firstTabDisplayIndex(page),
                        displayedTabCount |-> displayedTabCount(page, total) ]

\* the call returns
DetectDragIndexPosition ==
  /\ detectResult = <<>>
  /\ detectResult' =
       << detectDragIndexPositionIn(detectArgs.stripWidth, detectArgs.tabWidth,
                                    detectArgs.dragTabWidth, detectArgs.tabLeft,
                                    detectArgs.totalTabCount,
                                    detectArgs.firstTabDisplayIndex,
                                    detectArgs.displayedTabCount) >>
  /\ UNCHANGED <<storeVars, rendererVars, stripVars, detectArgs, geometryVars, frameVars>>

NextDetect == DetectDragIndexPosition

SpecDetect == InitDetect /\ [][NextDetect]_vars

(***************************************************************************)
(* The geometry of a drag of the only tab of a window: Tab.onDragStart,    *)
(* the frame offsets of DragStarted and the window position of             *)
(* SingleTabMoved. Lengths are counted in 1/PixelParts of a pixel: the     *)
(* pointer, the cursor and the windows are at whole pixels, the rectangle  *)
(* of a tab need not be.                                                   *)
(***************************************************************************)
PixelParts == 2
Pixels(point) == <<point[1] * PixelParts, point[2] * PixelParts>>

\* BrowserWindow.getPosition() at drag start, in pixels
GeometryWindowPositions == {<<0, 2>>, <<3, 1>>}
\* the offset of the window's content from its position, in pixels
GeometryFrames == {<<1, 2>>, <<0, 3>>}
\* e.clientX and e.clientY of the dragstart event, in pixels
GeometryClientPoints == {<<4, 2>>, <<5, 3>>}
\* getBoundingClientRect() of the tab, left and top, in parts of a pixel
GeometryTabCorners == {<<0, 0>>, <<1, 3>>, <<5, 0>>}
\* screen.getCursorScreenPoint() when the window is moved, in pixels
GeometryCursors == {<<2, 5>>, <<7, 6>>}

\* Tab.onDragStart, lines 87-89: the pointer relative to the rectangle of the tab
relativeDragStart(client, dragElementBounds) ==
  <<client[1] - dragElementBounds[1], client[2] - dragElementBounds[2]>>

\* e.screenX and e.screenY of a pointer event at a client point of a window
screenPoint(a, client) ==
  <<a.window[1] + a.frame[1] + client[1], a.window[2] + a.frame[2] + client[2]>>

InitGeometry ==
  /\ StoreQuiet
  /\ StripQuiet
  /\ DetectQuiet
  /\ FrameQuiet
  /\ geometrySession = <<>>
  /\ geometryMove = <<>>
  /\ \E window \in GeometryWindowPositions, frame \in GeometryFrames,
        client \in GeometryClientPoints, tab \in GeometryTabCorners :
       geometryArgs = [ window |-> Pixels(window), frame |-> Pixels(frame),
                        client |-> Pixels(client), tab |-> tab ]

\* the pointer is pressed on the tab: Tab.onDragStart and the session of DragStarted
GeometryDragStarted ==
  /\ geometrySession = <<>>
  /\ LET a == geometryArgs
         rel == relativeDragStart(a.client, a.tab)
         screen == screenPoint(a, a.client)
         data == [ sourceTabId |-> TabId,
                   originalWindowId |-> 1,
                   currentWindowId |-> 1,
                   originClientX |-> a.client[1],
                   originClientY |-> a.client[2],
                   originScreenX |-> screen[1],
                   originScreenY |-> screen[2],
                   relativeXDragStart |-> rel[1],
                   relativeYDragStart |-> rel[2],
                   originatedFromSingleTabWindow |-> TRUE ]
     IN geometrySession' = StartSession(EmptyMap, data, a.window)[stateKey]
  /\ UNCHANGED <<storeVars, rendererVars, stripVars, detectVars, frameVars, geometryArgs,
                 geometryMove>>

\* SingleTabMoved and its deferred callback: the tab reports its rectangle, the
\* store reads the cursor and computes the position of the window
GeometrySingleTabMoved ==
  /\ geometrySession # <<>>
  /\ \E cursorAt \in GeometryCursors \cup {<<0, 0>>}, tab \in GeometryTabCorners :
       LET origin == << geometrySession.originScreenX, geometrySession.originScreenY >>
           mouseScreenPos == IF cursorAt = <<0, 0>> THEN origin ELSE Pixels(cursorAt)
           e == [ tabX |-> tab[1], tabY |-> tab[2],
                  relativeTabX |-> geometrySession.relativeXDragStart,
                  relativeTabY |-> geometrySession.relativeYDragStart,
                  frameLeftWidth |-> geometrySession.frameLeftWidth,
                  frameTopHeight |-> geometrySession.frameTopHeight ]
       IN geometryMove' =
            [ cursor |-> mouseScreenPos, tab |-> tab,
              window |-> SingleTabWindowPositionIn(PixelParts, e, mouseScreenPos) ]
  /\ UNCHANGED <<storeVars, rendererVars, stripVars, detectVars, frameVars, geometryArgs,
                 geometrySession>>

NextGeometry ==
  \/ GeometryDragStarted
  \/ GeometrySingleTabMoved

SpecGeometry == InitGeometry /\ [][NextGeometry]_vars

LaterKeys ==
  { "attachRequestedWindowId", "detachToRequestedWindowId", "detachedFromWindowId",
    "detachedFromTabX", "detachedFromTabY", "displayIndexRequested",
    "dragWindowClientX", "dragWindowClientY" }

\* C2: a DragStarted processed while a session is active replaces it entirely:
\* right after the event the session holds none of the fields a session gathers
\* later, and of bufferWindowId and dragDetachedWindowId only the one its own
\* branch sets, naming the window of this drag.
C2_StartReplacesSession ==
  lastEvent.type = "DragStarted" =>
    /\ HasSession
    /\ DOMAIN Session \cap LaterKeys = {}
    /\ Session.currentWindowId = tabWindowId
    /\ IF Session.originatedFromSingleTabWindow
         THEN /\ ~Has(Session, "bufferWindowId")
              /\ Session.dragDetachedWindowId = tabWindowId
         ELSE /\ ~Has(Session, "dragDetachedWindowId")
              /\ Session.bufferWindowId = dragBuffer

\* a drag started from a single-tab window over a session with a pending detach
C2_Witness == lastEvent = Event("DragStarted", "singleOverPending")

\* C3: a ChangeDisplayIndexRequested whose sender is not the session's
\* currentWindowId leaves the session unchanged and schedules no tab reindex.
C3_StaleSenderIgnored ==
  [][ \A s \in Windows, i \in FrameIndexes, u \in BOOLEAN :
        ( /\ HasSession
          /\ s # Session.currentWindowId
          /\ ChangeDisplayIndexEvent(s, i, u) )
        => UNCHANGED <<state, immediates, asyncs, tabIndex>> ]_vars

\* an index change from a window other than the current one has been dropped
C3_Witness == lastEvent = Event("ChangeDisplayIndex", "staleWindow")

PendingMarkers ==
  {"attachRequestedWindowId", "detachToRequestedWindowId", "detachedFromWindowId"}

\* C4: while attachRequestedWindowId, detachToRequestedWindowId or
\* detachedFromWindowId is in the session, a ChangeDisplayIndexRequested and a
\* SingleTabWindowMoved leave the session unchanged and schedule no tab reindex
\* and no window reposition.
C4_PendingDefersMoves ==
  [][ \A s \in Windows, i \in FrameIndexes, u \in BOOLEAN, tab \in TabPoints :
        ( /\ HasSession
          /\ DOMAIN Session \cap PendingMarkers # {}
          /\ ChangeDisplayIndexEvent(s, i, u) \/ SingleTabMovedEvent(s, tab) )
        => UNCHANGED <<state, immediates, asyncs, tabIndex, winPos>> ]_vars

\* a window move has been dropped while a detach is pending
C4_Witness ==
  /\ HasSession
  /\ Has(Session, "detachedFromWindowId")
  /\ lastEvent = Event("SingleTabMoved", "detachPending")

\* C5: a TabAttached that arrives while an attach, or a detach, is pending and
\* the tab's owning window is not the window that request names leaves the
\* session unchanged.
C5_EarlyConfirmationIgnored ==
  [][ ( /\ HasSession
        /\ \/ /\ Has(Session, "attachRequestedWindowId")
              /\ tabWindowId # Session.attachRequestedWindowId
           \/ /\ Has(Session, "detachToRequestedWindowId")
              /\ tabWindowId # Session.detachToRequestedWindowId
        /\ TabAttached )
      => state' = state ]_vars

\* C6: a TabAttached that arrives while attachRequestedWindowId is set and names
\* the tab's owning window yields a session with no attachRequestedWindowId, no
\* displayIndexRequested and no dragDetachedWindowId, whose currentWindowId is
\* that window and whose dragWindowClientX/Y are the cursor's point in it.
C6_AttachConfirmed ==
  [][ ( /\ HasSession
        /\ Has(Session, "attachRequestedWindowId")
        /\ tabWindowId = Session.attachRequestedWindowId
        /\ TabAttached )
      => LET after == state'[stateKey]
             point == getWindowClientPointAtCursor(tabWindowId, cursor, winPos)
         IN /\ DOMAIN after \cap {"attachRequestedWindowId", "displayIndexRequested",
                                  "dragDetachedWindowId"} = {}
            /\ after.currentWindowId = tabWindowId
            /\ Has(after, "dragWindowClientX") /\ Has(after, "dragWindowClientY")
            /\ <<after.dragWindowClientX, after.dragWindowClientY>> = point ]_vars

\* an attach has been confirmed for the window that owns the tab
C6_Witness ==
  /\ lastEvent = Event("TabAttached", "attached")
  /\ Session.currentWindowId = tabWindowId
  /\ ~Has(Session, "attachRequestedWindowId")

\* C7 as stated: a TabAttached that arrives while detachToRequestedWindowId is
\* set and names the tab's owning window yields a session with no
\* detachToRequestedWindowId and no detachedFromWindowId, whose currentWindowId
\* is that window and whose dragWindowClientX/Y are the cursor's point in it.
C7_DetachConfirmedFresh ==
  [][ ( /\ HasSession
        /\ Has(Session, "detachToRequestedWindowId")
        /\ tabWindowId = Session.detachToRequestedWindowId
        /\ TabAttached )
      => LET after == state'[stateKey]
             point == getWindowClientPointAtCursor(tabWindowId, cursor, winPos)
         IN /\ DOMAIN after \cap {"detachToRequestedWindowId",
                                  "detachedFromWindowId"} = {}
            /\ after.currentWindowId = tabWindowId
            /\ Has(after, "dragWindowClientX") /\ Has(after, "dragWindowClientY")
            /\ <<after.dragWindowClientX, after.dragWindowClientY>> = point ]_vars

\* C7: a TabAttached that arrives while detachToRequestedWindowId is set and
\* names the tab's owning window, with no attach pending, yields a session with
\* no detachToRequestedWindowId, no detachedFromWindowId and no
\* displayIndexRequested, whose currentWindowId and dragDetachedWindowId are
\* that window and whose dragWindowClientX/Y are what they were; with an attach
\* pending too the event is taken for the attach and the detach markers stay.
C7_DetachConfirmed ==
  [][ ( /\ HasSession
        /\ Has(Session, "detachToRequestedWindowId")
        /\ tabWindowId = Session.detachToRequestedWindowId
        /\ TabAttached )
      => LET after == state'[stateKey] IN
         IF Has(Session, "attachRequestedWindowId")
           THEN /\ Has(after, "detachToRequestedWindowId")
                /\ Has(after, "detachedFromWindowId")
                /\ after.detachToRequestedWindowId = Session.detachToRequestedWindowId
           ELSE /\ DOMAIN after \cap {"detachToRequestedWindowId", "detachedFromWindowId",
                                      "displayIndexRequested"} = {}
                /\ after.currentWindowId = tabWindowId
                /\ after.dragDetachedWindowId = tabWindowId
                /\ \A k \in {"dragWindowClientX", "dragWindowClientY"} :
                     /\ Has(after, k) <=> Has(Session, k)
                     /\ Has(after, k) => after[k] = Session[k] ]_vars

\* a detach has been confirmed and the session still carries the coordinates
\* recorded in the window the tab left, which are not the cursor's in the new one
C7_Witness ==
  /\ lastEvent = Event("TabAttached", "detached")
  /\ Session.currentWindowId = tabWindowId
  /\ Has(Session, "dragWindowClientX")
  /\ Session.dragWindowClientX #
       getWindowClientPointAtCursor(tabWindowId, cursor, winPos)[1]

\* C8: a TabAttached delivered again after the one that confirmed an attach or a
\* detach, with the tab still owned by the same window, leaves the session as
\* the first delivery left it.
C8_ConfirmationIdempotent ==
  [][ ( /\ lastEvent.type = "TabAttached"
        /\ lastEvent.branch \in {"attached", "detached"}
        /\ TabAttached )
      => state' = state ]_vars

(***************************************************************************)
(* Properties of the tab strip.                                            *)
(***************************************************************************)
InRange(index) == 0 <= index /\ index <= totalTabCount - 1

\* C9: every destination index requested for the dragged tab, by a pointer
\* move or by the page-change timer, and the display index the tab gets, lies
\* in [0, totalTabCount - 1].
C9_IndexesInRange ==
  /\ InRange(displayIndex)
  /\ \A i \in 1..Len(indexChanges) : InRange(indexChanges[i])
  /\ \A i \in 1..Len(draggingMoveTabPageTimeout) : InRange(draggingMoveTabPageTimeout[i])

\* on the last page the pointer is past the right margin, and the index asked
\* for is the last one
C9_Witness ==
  /\ stripEvent = StripEvent("mouseMove", "pastRight", "inPage")
  /\ indexChanges # <<>>
  /\ indexChanges[Len(indexChanges)] = totalTabCount - 1

\* the pointer move reaches onDragChangeIndex
ChangeIndexCalled(clientX, clientY) ==
  /\ isDragging
  /\ dragProcessMoves
  /\ totalTabCount # 1
  /\ ~throttleWaiting
  /\ ~hasRequestedDetach
  /\ measured
  /\ ~suspendOrderChangeUntilUpdate
  /\ ~(dragCanDetach /\ isOutsideBounds(clientX, clientY, draggingDetachThreshold))

\* the destination index the pointer move asks for
DestinationAt(clientX) ==
  detectDragIndexPosition(TabWidth, TabWidth, tabLeftAt(clientX), totalTabCount,
                          firstTabDisplayIndex(tabPageIndex),
                          displayedTabCount(tabPageIndex, totalTabCount))

FirstOnPage == firstTabDisplayIndex(tabPageIndex)
LastOnPage ==
  firstTabDisplayIndex(tabPageIndex) + displayedTabCount(tabPageIndex, totalTabCount) - 1

\* C10 as stated: a destination beyond the current page issues an index change to
\* the page-boundary index and starts the pending page change, without changing
\* page; a destination within the page that arrives while the page change is
\* pending cancels it and issues the in-page index change.
C10_PageChangeDebounce ==
  [][ \A x \in PointerXs, y \in PointerYs :
        ( ChangeIndexCalled(x, y) /\ TabDraggingMouseMoveEvent(x, y) )
        => /\ DestinationAt(x) > LastOnPage
                => /\ indexChanges' = Append(indexChanges, LastOnPage)
                   /\ draggingMoveTabPageTimeout' # <<>>
                   /\ tabPageIndex' = tabPageIndex
           /\ DestinationAt(x) < FirstOnPage
                => /\ indexChanges' = Append(indexChanges, FirstOnPage)
                   /\ draggingMoveTabPageTimeout' # <<>>
                   /\ tabPageIndex' = tabPageIndex
           /\ ( /\ DestinationAt(x) \in FirstOnPage..LastOnPage
                /\ draggingMoveTabPageTimeout # <<>> )
                => /\ draggingMoveTabPageTimeout' = <<>>
                   /\ indexChanges' = Append(indexChanges, DestinationAt(x)) ]_vars

\* C10: a destination beyond the current page issues an index change to the
\* page-boundary index unless the tab is at that index already, and starts the
\* pending page change or lets a pending one go on, without changing page; a
\* destination within the page cancels a pending page change, clears the pausing
\* marker, and issues the in-page index change unless the tab is at that index
\* already; an index outside the current page is issued only by a pending timer
\* that fires, so never by a timer that was cancelled.
C10_PageChangeDebounceAsCoded ==
  [][ /\ \A x \in PointerXs, y \in PointerYs :
           ( ChangeIndexCalled(x, y) /\ TabDraggingMouseMoveEvent(x, y) )
           => /\ DestinationAt(x) > LastOnPage
                   => /\ indexChanges' = indexChanges \o
                           (IF displayIndex # LastOnPage THEN <<LastOnPage>> ELSE <<>>)
                      /\ draggingMoveTabPageTimeout' =
                           IF draggingMoveTabPageTimeout = <<>>
                             THEN <<DestinationAt(x)>> ELSE draggingMoveTabPageTimeout
                      /\ tabPageIndex' = tabPageIndex
              /\ DestinationAt(x) < FirstOnPage
                   => /\ indexChanges' = indexChanges \o
                           (IF displayIndex # FirstOnPage THEN <<FirstOnPage>> ELSE <<>>)
                      /\ draggingMoveTabPageTimeout' =
                           IF draggingMoveTabPageTimeout = <<>>
                             THEN <<DestinationAt(x)>> ELSE draggingMoveTabPageTimeout
                      /\ tabPageIndex' = tabPageIndex
              /\ DestinationAt(x) \in FirstOnPage..LastOnPage
                   => /\ draggingMoveTabPageTimeout' = <<>>
                      /\ pausingForPageIndex' = <<>>
                      /\ indexChanges' = indexChanges \o
                           (IF displayIndex # DestinationAt(x)
                              THEN <<DestinationAt(x)>> ELSE <<>>)
                      /\ tabPageIndex' = tabPageIndex
      /\ ( /\ Len(indexChanges') > Len(indexChanges)
           /\ indexChanges'[Len(indexChanges')] \notin FirstOnPage..LastOnPage )
         => /\ draggingMoveTabPageTimeout = <<indexChanges'[Len(indexChanges')]>>
            /\ draggingMoveTabPageTimeout' = <<>> ]_vars

\* a destination on the next page has been asked for while the tab is at the
\* last index of its page: the page change is pending and no index change is issued
C10_Witness ==
  /\ stripEvent = StripEvent("mouseMove", "pastRight", "nextPage")
  /\ displayIndex = LastOnPage
  /\ indexChanges = <<>>
  /\ draggingMoveTabPageTimeout # <<>>

\* C11: for a detachable dragged tab a detach-requested intent is emitted only by
\* the confirmation timer, at most once, and only while the pointer is still
\* beyond a detach margin; and once the intent has been emitted the controller
\* emits no index-change and no detach intent.
C11_DetachOnceUnlessReturned ==
  [][ /\ detachRequests' <= 1
      /\ detachRequests' > detachRequests
         => /\ stripEvent'.type = "detachTimeout"
            /\ pointerOutside
      /\ ( detachRequests > 0 /\ stripEvent'.type # "pageTimeout" )
         => /\ detachRequests' = detachRequests
            /\ Len(indexChanges') <= Len(indexChanges) ]_vars

\* C12: while the dragged tab is the only tab of its window the controller emits
\* no index-change intent and no detach-requested intent, and sets no timer that
\* could emit one; its pointer moves emit single-tab-moved intents only.
C12_SingleTabOnlyMovesWindow ==
  totalTabCount = 1 =>
    /\ indexChanges = <<>>
    /\ detachRequests = 0
    /\ detachTimers = 0
    /\ pageTimers = 0
    /\ ~throttleWaiting

\* the only tab of a window has been dragged beyond the detach margin, and
\* window-move intents have been emitted
C12_Witness ==
  /\ totalTabCount = 1
  /\ dragCanDetach
  /\ measured
  /\ pointerOutside
  /\ singleTabMoves = MaxRequests
  /\ stripEvent = StripEvent("mouseMove", "none", "singleTabMoved")

\* the session after an attach was confirmed: the tab is owned by the window the
\* session names, no attach is requested, and the window the tab came from is the
\* registered drag buffer, takes mouse events and is not always-on-top
AttachCompleted ==
  /\ tabWindowId = Session.currentWindowId
  /\ ~Has(Session, "attachRequestedWindowId")
  /\ Has(Session, "bufferWindowId")
  /\ dragBuffer = Session.bufferWindowId
  /\ Session.bufferWindowId \notin ignoreMouse \cup alwaysOnTop

\* C13: when the tab of a single-tab window is dragged and a mouse-over from another
\* window B was accepted, then once TabAttached has confirmed the attach the tab is
\* owned by B, currentWindowId is B, no attach marker remains and the originating
\* window is the registered drag buffer with mouse-transparency and always-on-top
\* cleared; and when such a drag is completed or cancelled with no deferred effect
\* outstanding, the originating window is not visible afterwards.
C13_EndToEndAttach ==
  [][ /\ lastEvent' = Event("TabAttached", "attached") => AttachCompleted'
      /\ ( /\ HasSession
           /\ Has(Session, "bufferWindowId")
           /\ ~Has(Session, "attachRequestedWindowId")
           /\ ~Has(Session, "detachToRequestedWindowId")
           /\ getDragDetachedWindowId(state) = NoWindow
           /\ tabWindowId = Session.currentWindowId
           /\ tabWindowId # Session.bufferWindowId
           /\ immediates = <<>> /\ asyncs = {}
           /\ (DragComplete \/ DragCancelled) )
         => Session.bufferWindowId \notin visible' ]_vars

\* what the deferred effects operate on: the tab's window and index, and the windows'
\* positions, mouse-transparency, always-on-top, visibility and buffer registration
windowsAndTabs ==
  <<tabWindowId, tabIndex, winPos, ignoreMouse, alwaysOnTop, visible, dragBuffer>>

\* C14: a deferred side effect (a setImmediate callback, a tabs.moveTo callback, the
\* 50ms timeout of the detach) that runs after DragCancelled or DragComplete ended the
\* session it was queued for performs no window or tab operation.
C14_EffectsRecheckSession ==
  [][ ( /\ ~HasSession
        /\ hist = "none"
        /\ (RunImmediate \/ CompleteAsync) )
      => UNCHANGED windowsAndTabs ]_vars

\* DragCancelled or DragComplete ended the last session and no deferred effect is
\* outstanding
DragEndedAndSettled ==
  /\ ~HasSession
  /\ hist = "none"
  /\ immediates = <<>>
  /\ asyncs = {}

\* C15: once DragCancelled or DragComplete has been processed and every deferred
\* effect scheduled before it has run, in whatever order, no window ignores mouse
\* events, no window is always-on-top and the registered buffer window is not visible.
C15_WindowsRestoredAfterEnd ==
  DragEndedAndSettled =>
    /\ ignoreMouse = {}
    /\ alwaysOnTop = {}
    /\ dragBuffer # NoWindow => dragBuffer \notin visible

\* C16: when the drag controller is torn down (the tab stops dragging or unmounts) the
\* detach timer is cleared, and while it stays torn down no pointer move, pending
\* timer, throttled call or animation-frame callback of the controller emits a
\* detach, index-change or window-move intent (the page-change timer of tabs.js is
\* not the controller's).
C16_TornDownEmitsNothing ==
  [][ /\ (isDragging /\ ~isDragging') => detachTimers' = 0
      /\ (~isDragging /\ ~isDragging') =>
           /\ detachRequests' = detachRequests
           /\ singleTabMoves' = singleTabMoves
           /\ Len(indexChanges') > Len(indexChanges)
                => stripEvent'.type = "pageTimeout" ]_vars

\* C17: when the drag ends while the page-change timer of the window is pending, the
\* timer is cancelled: the end of the drag leaves no page-change timer pending and
\* no pausing marker set, and no page-change timer issues an index-change request
\* while the tab is not dragging.
C17_PageTimerCancelledAtDragEnd ==
  [][ /\ (isDragging /\ ~isDragging') =>
           /\ pageTimers' = 0
           /\ pausingForPageIndex' = <<>>
      /\ (~isDragging /\ stripEvent'.type = "pageTimeout") =>
           indexChanges' = indexChanges ]_vars

\* C18: timers are never stacked: a window has at most one page-change timer
\* pending and a controller at most one detach timer pending.
C18_TimersNeverStacked ==
  /\ detachTimers <= 1
  /\ pageTimers <= 1
  /\ pageTimers = 1 <=> draggingMoveTabPageTimeout # <<>>
  /\ detachTimers = 1 <=> draggingDetachTimeout = "pending"

\* both timers are pending and a further move outside the bounds was processed
C18_Witness ==
  /\ detachTimers = 1
  /\ pageTimers = 1
  /\ stripEvent = StripEvent("throttled", "none", "outside")

\* C19: APP_SET_STATE always yields a state with no drag session, whatever the state
\* it is applied to carries.
C19_SetStateDiscardsSession ==
  lastEvent.type = "SetState" => ~HasSession

\* APP_SET_STATE was processed while a drag was in progress with a deferred effect
\* still queued
C19_Witness ==
  /\ lastEvent.type = "SetState"
  /\ hist = "restored"
  /\ immediates # <<>>

\* C20: DragCancelled and DragComplete can be processed in any store state (no
\* session, no dragDetachedWindowId recorded, no visible buffer window, a detached
\* or buffer window that is missing) and always leave a state without a session.
C20_EndOfDragAlwaysEndsSession ==
  lastEvent.type \in {"DragCancelled", "DragComplete"} => ~HasSession

\* the session waits for the confirmation of an attach or of a detach
WaitingForConfirmation ==
  /\ HasSession
  /\ DOMAIN Session \cap PendingMarkers # {}

\* C21: waiting never blocks forever: when the callbacks run, the requested tab move
\* completes and TabAttached is delivered afterwards, a session that waits for a
\* confirmation eventually has no pending attach or detach marker (or has ended),
\* so that index changes and window moves of the current window are accepted again.
C21_WaitingEndsWhenConfirmed ==
  WaitingForConfirmation ~> ~WaitingForConfirmation

\* C22: a MouseOverOtherWindowTab leaves the session unchanged and schedules no tab
\* move when there is no session, when an attach or a detach is pending, when no
\* detached window is recorded or when the event has no frame index; otherwise it
\* sets attachRequestedWindowId to the sender and bufferWindowId to the detached
\* window of the moment.
C22_MouseOverGuards ==
  [][ \A s \in Windows, fi \in FrameIndexes \cup {NoIndex} :
        MouseOverEvent(s, fi) =>
          IF \/ ~HasSession
             \/ Has(Session, "attachRequestedWindowId")
             \/ Has(Session, "detachToRequestedWindowId")
             \/ ~Has(Session, "dragDetachedWindowId")
             \/ fi = NoIndex
            THEN UNCHANGED <<state, immediates, asyncs, tabWindowId>>
            ELSE /\ Has(state', stateKey)
                 /\ state'[stateKey].attachRequestedWindowId = s
                 /\ state'[stateKey].bufferWindowId = Session.dragDetachedWindowId
                 /\ Len(immediates') = Len(immediates) + 1 ]_vars

\* a mouse-over of window 1 was accepted while the tab is dragged in its own window 2
C22_Witness ==
  /\ lastEvent = Event("MouseOver", "accepted")
  /\ HasSession
  /\ Has(Session, "attachRequestedWindowId")
  /\ Session.attachRequestedWindowId = 1
  /\ Session.bufferWindowId = 2
  /\ Session.dragDetachedWindowId = 2

\* C23: a DetachRequested processed with a session records detachedFromTabX/Y from
\* the event, detachedFromWindowId as the window that owns the tab and
\* detachToRequestedWindowId as the id of the buffer window, so that the session is
\* detach-pending right after the transition; with no session it changes nothing.
C23_DetachRequestedRecords ==
  [][ \A tab \in TabPoints :
        DetachRequestedEvent(tab) =>
          IF HasSession
            THEN /\ Has(state', stateKey)
                 /\ Has(state'[stateKey], "detachToRequestedWindowId")
                 /\ state'[stateKey].detachToRequestedWindowId = dragBuffer
                 /\ state'[stateKey].detachedFromWindowId = tabWindowId
                 /\ state'[stateKey].detachedFromTabX = tab[1]
                 /\ state'[stateKey].detachedFromTabY = tab[2]
            ELSE UNCHANGED <<state, immediates, asyncs, tabWindowId, dragBuffer>> ]_vars

\* C24: a DetachRequested that arrives while a detach or an attach is pending for
\* the session is dropped: it does not change the session, does not unregister the
\* buffer window and schedules no second tab move.
C24_DuplicateDetachDropped ==
  [][ \A tab \in TabPoints :
        ( /\ HasSession
          /\ \/ Has(Session, "attachRequestedWindowId")
             \/ Has(Session, "detachToRequestedWindowId")
          /\ DetachRequestedEvent(tab) )
        => UNCHANGED <<state, dragBuffer, immediates, asyncs>> ]_vars

\* C25: DragStarted creates the session with the frame offsets added and takes
\* exactly one of two branches: for a drag that did not start in a single-tab window
\* a buffer window is created, its id is stored as bufferWindowId and no
\* dragDetachedWindowId is set; otherwise dragDetachedWindowId is the source window,
\* no buffer window is created and the callback that makes the source window
\* mouse-transparent is queued.
C25_DragStartedBranches ==
  [][ DragStarted =>
        LET started == state'[stateKey]
            src == started.originalWindowId
        IN
        /\ started.frameTopHeight =
             started.originScreenY - started.originClientY - winPos[src][2]
        /\ started.frameLeftWidth =
             started.originScreenX - started.originClientX - winPos[src][1]
        /\ src = tabWindowId
        /\ IF started.originatedFromSingleTabWindow = FALSE
             THEN /\ numWindows' = numWindows + 1
                  /\ started.bufferWindowId = numWindows'
                  /\ dragBuffer' = numWindows'
                  /\ ~Has(started, "dragDetachedWindowId")
             ELSE /\ started.dragDetachedWindowId = src
                  /\ ~Has(started, "bufferWindowId")
                  /\ numWindows' = numWindows
                  /\ dragBuffer' = dragBuffer
                  /\ immediates' =
                       Append(immediates, [type |-> "ignoreMouse", win |-> src]) ]_vars

\* a drag started in single-tab window 2, no buffer window was created, and the
\* queued callback has made the window mouse-transparent
C25_Witness ==
  /\ HasSession
  /\ Session.originatedFromSingleTabWindow
  /\ Session.dragDetachedWindowId = 2
  /\ ~Has(Session, "bufferWindowId")
  /\ numWindows = 2
  /\ dragBuffer = NoWindow
  /\ 2 \in ignoreMouse
  /\ hist = "started"

\* what DragStarted sets for the lifetime of the session
SessionConstants ==
  {"sourceTabId", "originalWindowId", "relativeXDragStart", "relativeYDragStart",
   "frameTopHeight", "frameLeftWidth"}

\* C26: within the lifetime of a session sourceTabId, originalWindowId,
\* relativeXDragStart, relativeYDragStart and the frame offsets never change, and
\* currentWindowId changes only in a TabAttached that confirms a pending attach or
\* detach, which sets it to the window that owns the tab.
C26_SessionIdentityStable ==
  [][ ( /\ HasSession
        /\ Has(state', stateKey)
        /\ lastEvent'.type # "DragStarted" )
      => /\ \A k \in SessionConstants :
              /\ Has(state'[stateKey], k)
              /\ state'[stateKey][k] = Session[k]
         /\ state'[stateKey].currentWindowId # Session.currentWindowId
              => /\ lastEvent' \in { Event("TabAttached", "attached"),
                                     Event("TabAttached", "detached") }
                 /\ DOMAIN Session \cap
                      {"attachRequestedWindowId", "detachToRequestedWindowId"} # {}
                 /\ state'[stateKey].currentWindowId = tabWindowId ]_vars

\* the detach of a drag that started in window 1 was confirmed: the session names
\* window 2 as the current window and still has what DragStarted set
C26_Witness ==
  /\ lastEvent = Event("TabAttached", "detached")
  /\ Session.originalWindowId = 1
  /\ Session.currentWindowId = 2
  /\ tabWindowId = 2
  /\ Session.sourceTabId = TabId

\* C27: an accepted ChangeDisplayIndexRequested records its destination in
\* displayIndexRequested, and a further ChangeDisplayIndexRequested for the same
\* destination that arrives while that value is recorded schedules no additional
\* tab reindex.
C27_DuplicateIndexChangeSuppressed ==
  [][ \A s \in Windows, i \in FrameIndexes, u \in BOOLEAN :
        ChangeDisplayIndexEvent(s, i, u) =>
          /\ lastEvent'.branch = "accepted" => state'[stateKey].displayIndexRequested = i
          /\ ( /\ HasSession
               /\ Has(Session, "displayIndexRequested")
               /\ Session.displayIndexRequested = i )
             => immediates' = immediates ]_vars

\* C28: a window's drag controller runs the sort and detach detection or emits a
\* window-move intent only while the window is the authoritative mover: its session
\* has no attachRequestedWindowId and no detachedFromWindowId, names the window as
\* currentWindowId, and the window owns the tab (props.dragProcessMoves).
C28_OnlyAuthoritativeWindowDetects ==
  [][ /\ ( /\ isDragging'
           /\ stripEvent'.type \in {"mouseMove", "throttled"}
           /\ stripEvent'.branch # "unmeasured" )
         => dragProcessMoves
      /\ singleTabMoves' > singleTabMoves => dragProcessMoves ]_vars

C30_PageTimerCommits ==
  [][ /\ ( draggingMoveTabPageTimeout = <<>> /\ draggingMoveTabPageTimeout' # <<>> )
         => /\ stripEvent'.branch \in {"nextPage", "previousPage"}
            /\ Len(draggingMoveTabPageTimeout') = 1
            /\ draggingMoveTabPageTimeout'[1] \notin FirstOnPage..LastOnPage
            /\ pausingForPageIndex' # <<>>
      /\ ( draggingMoveTabPageTimeout # <<>> /\ draggingMoveTabPageTimeout' # <<>> )
         => draggingMoveTabPageTimeout' = draggingMoveTabPageTimeout
      /\ stripEvent'.type = "pageTimeout"
         => /\ draggingMoveTabPageTimeout # <<>>
            /\ indexChanges' = Append(indexChanges, draggingMoveTabPageTimeout[1])
            /\ pausingForPageIndex' = <<>>
            /\ draggingMoveTabPageTimeout' = <<>>
            /\ pageTimers' = 0 ]_vars

\* the timer of a wait for the next page has fired during the drag: the index
\* change to the destination on the next page is the last one issued, and
\* neither the marker nor a timer is left
C30_Witness ==
  /\ isDragging
  /\ stripEvent.type = "pageTimeout"
  /\ indexChanges # <<>>
  /\ indexChanges[Len(indexChanges)] > LastOnPage
  /\ pausingForPageIndex = <<>>
  /\ pageTimers = 0

\* floor((tabLeft - tabWidth / 2) / tabWidth): the integer k with
\* k * tabWidth <= tabLeft - tabWidth / 2 < (k + 1) * tabWidth
IsFloorOfHalfWidthQuotient(k, tabLeft, tabWidth) ==
  /\ 2 * k * tabWidth <= 2 * tabLeft - tabWidth
  /\ 2 * tabLeft - tabWidth < 2 * (k + 1) * tabWidth

Clamped(i, low, high) == IF i < low THEN low ELSE IF i > high THEN high ELSE i

\* C31: the index a call of detectDragIndexPosition returns is
\* max(0, firstTabDisplayIndex - 1) when tabLeft is more than 38 left of the
\* strip; else min(totalTabCount - 1, firstTabDisplayIndex + displayedTabCount)
\* when the right edge of the tab is more than 38 past the width of the strip;
\* else firstTabDisplayIndex + floor((tabLeft - tabWidth/2) / tabWidth) + 1
\* brought into [0, totalTabCount - 1].
C31_DestinationIndexFormula ==
  detectResult # <<>> =>
    LET a == detectArgs
        last == a.totalTabCount - 1
    IN
    IF a.tabLeft < 0 - 38
      THEN detectResult[1] = (IF a.firstTabDisplayIndex - 1 > 0
                                THEN a.firstTabDisplayIndex - 1 ELSE 0)
    ELSE IF a.tabLeft + a.dragTabWidth > a.stripWidth + 38
      THEN detectResult[1] =
             (IF a.firstTabDisplayIndex + a.displayedTabCount < last
                THEN a.firstTabDisplayIndex + a.displayedTabCount ELSE last)
    ELSE \E k \in (0 - 10)..10 :
           /\ IsFloorOfHalfWidthQuotient(k, a.tabLeft, a.tabWidth)
           /\ detectResult[1] = Clamped(a.firstTabDisplayIndex + k + 1, 0, last)

\* a call that took the third case with the left edge of the tab left of the
\* strip, where the quotient is negative, and returned an index that the limits
\* did not change
C31_Witness ==
  /\ detectResult # <<>>
  /\ detectArgs.tabLeft < 0
  /\ detectArgs.tabLeft >= 0 - 38
  /\ detectArgs.firstTabDisplayIndex = 2
  /\ detectResult[1] = 1

\* C32: the vertical detach margin of a controller is 44 when its handlers are
\* attached; while they stay attached it becomes 80 only once a render has shown
\* the dragged tab at another display index, and from 80 it does not go back to 44.
C32_DetachMarginWidensAfterReorder ==
  [][ /\ (~isDragging /\ isDragging') => draggingDetachThreshold' = 44
      /\ ( /\ isDragging /\ isDragging'
           /\ draggingDetachThreshold = 44
           /\ draggingDetachThreshold' = 80 )
         => reorderedSinceAttach
      /\ ( /\ isDragging /\ isDragging'
           /\ draggingDetachThreshold = 80 )
         => draggingDetachThreshold' # 44 ]_vars

\* where on the screen the point of the tab that was grabbed is, once the
\* window has been moved
GrabbedPoint ==
  << geometryMove.window[1] + geometryArgs.frame[1] + geometryMove.tab[1]
       + geometrySession.relativeXDragStart,
     geometryMove.window[2] + geometryArgs.frame[2] + geometryMove.tab[2]
       + geometrySession.relativeYDragStart >>

\* the cursor is where the pointer was pressed, and the tab is where it was in
\* its window
BackAtOrigin ==
  /\ geometryMove.cursor = << geometrySession.originScreenX,
                              geometrySession.originScreenY >>
  /\ geometryMove.tab = geometryArgs.tab

\* C33 as stated: with the frame offsets of DragStarted, the window position
\* SingleTabMoved computes puts the grabbed point of the tab exactly under the
\* cursor, and with the cursor at the origin of the drag and the tab where it
\* was in its window, that position is the window's position at drag start.
C33_GrabbedPointUnderCursor ==
  geometryMove # <<>> =>
    /\ GrabbedPoint = geometryMove.cursor
    /\ BackAtOrigin => geometryMove.window = geometryArgs.window

\* C33: the window position SingleTabMoved computes is a whole number of
\* pixels, and puts the grabbed point of the tab at the cursor or less than one
\* pixel left of it and above it: exactly under the cursor when the tab's
\* rectangle and the grab offset add up to whole pixels; with the cursor at the
\* origin of the drag and the tab where it was in its window, the position is
\* the window's position at drag start.
C33_GrabbedPointWithinAPixel ==
  geometryMove # <<>> =>
    /\ \A i \in {1, 2} :
         /\ geometryMove.window[i] % PixelParts = 0
         /\ GrabbedPoint[i] <= geometryMove.cursor[i]
         /\ geometryMove.cursor[i] - GrabbedPoint[i] < PixelParts
         /\ GrabbedPoint[i] % PixelParts = 0 => GrabbedPoint[i] = geometryMove.cursor[i]
    /\ BackAtOrigin => geometryMove.window = geometryArgs.window

\* the window was moved with the tab's rectangle half a pixel off from where it
\* was at drag start, and the grabbed point is half a pixel left of the cursor
C33_Witness ==
  /\ geometryMove # <<>>
  /\ geometryMove.tab # geometryArgs.tab
  /\ geometryMove.cursor[1] - GrabbedPoint[1] = 1
  /\ geometryMove.window # geometryArgs.window

\* C34: the session never holds attachRequestedWindowId and
\* detachToRequestedWindowId at once: it is attach-pending or detach-pending,
\* never both.
C34_AttachAndDetachNeverBothPending ==
  HasSession =>
    ~ ( /\ Has(Session, "attachRequestedWindowId")
        /\ Has(Session, "detachToRequestedWindowId") )

\* C35: whenever the controller has suspended its index-change requests, the
\* suspension ends while the drag goes on in the window, also when the store
\* has dropped the request and the display index of the tab never changes.
C35_SuspensionEventuallyLifted ==
  (isDragging /\ suspendOrderChangeUntilUpdate) ~> ~suspendOrderChangeUntilUpdate

\* C36: at most one frame for dragTab is pending, and when a frame has run
\* dragTab in a controller that is still there, also when dragTab returned
\* early, the handle is forgotten, so that the next pointer move requests a
\* frame again.
C36_FrameGateNeverSticks ==
  [][ /\ Len(dragTabFrames') <= 1
      /\ (stripEvent'.type = "frame" /\ mounted') => ~dragTabMouseMoveFrame' ]_vars

\* C37: the page-change timer and the pausing marker follow the most recent
\* request beyond the page: after every sort detection that asks for the next
\* (the previous) page, also when a timer was already pending, the destination
\* the timer will issue lies beyond the last (before the first) index of the
\* current page and the marker names the page after (before) the current one.
C37_PageTimerFollowsLatestRequest ==
  [][ /\ ( /\ stripEvent'.type \in {"mouseMove", "throttled"}
           /\ stripEvent'.branch = "nextPage" )
         => /\ draggingMoveTabPageTimeout' # <<>>
            /\ draggingMoveTabPageTimeout'[1] > LastOnPage
            /\ pausingForPageIndex' = <<tabPageIndex + 1>>
      /\ ( /\ stripEvent'.type \in {"mouseMove", "throttled"}
           /\ stripEvent'.branch = "previousPage" )
         => /\ draggingMoveTabPageTimeout' # <<>>
            /\ draggingMoveTabPageTimeout'[1] < FirstOnPage
            /\ pausingForPageIndex' = <<tabPageIndex - 1>> ]_vars

\* the session waits for the attach to a window
AttachRequested(st) == Has(st, stateKey) /\ Has(st[stateKey], "attachRequestedWindowId")

\* C38: the window a MouseOverOtherWindowTab asks the tab to attach to is never
\* the window the tab is dragged in: in the transition that records the attach
\* request, attachRequestedWindowId differs from the dragDetachedWindowId of the
\* session and from the bufferWindowId recorded with it.
C38_AttachTargetIsAnotherWindow ==
  [][ (~AttachRequested(state) /\ AttachRequested(state'))
        => /\ state'[stateKey].attachRequestedWindowId # getDragDetachedWindowId(state)
           /\ state'[stateKey].attachRequestedWindowId # state'[stateKey].bufferWindowId
    ]_vars

====
